---------------------------- MODULE Spec2Model ----------------------------
(***************************************************************************)
(* A model of jax2onnx's OnnxBuilder (converter/onnx_builder.py) and of    *)
(* the scatter legalizer (_prepare_scatter_inputs_for_onnx in              *)
(* plugins/jax/lax/scatter_utils.py).                                      *)
(*                                                                         *)
(* Encodings.                                                              *)
(*  - A tensor name is a string.  Python's sorted() on names is code-point *)
(*    order, modelled by StrLess over Alphabet.                            *)
(*  - A dtype is a string: numpy dtypes are lower case ("float32"), ONNX   *)
(*    TensorProto enum members are upper case ("FLOAT").  isinstance(dtype,*)
(*    int) is membership in OnnxEnums.                                     *)
(*  - A shape is a tuple of integers.  A dimension d >= 0 is a concrete    *)
(*    int, -1 is the int -1, NoneDim is Python's None, and every d <=      *)
(*    SymBase is a symbolic dimension object whose identity is d.          *)
(*  - A dict is a function; `k in d` is k \in DOMAIN d.                     *)
(*  - An OnnxBuilder object is a record of its fields; a method that       *)
(*    mutates self is an operator from a builder record to the new one.    *)
(***************************************************************************)
EXTENDS Integers, Sequences, FiniteSets, TLC

VARIABLES
    builder,    \* the OnnxBuilder instance (record of its fields)
    graph,      \* what the latest call returned or raised, when that call
                \* was _build_graph (NotBuilt after any other call)
    last,       \* the latest call made on builder: [op, name]
    shape_env,  \* the converter's shape_env: name -> [shape, dtype]
    call,       \* the arguments of the scatter legalization under study
    outcome,    \* what _prepare_scatter_inputs_for_onnx returned or raised
    body_builder,\* a second OnnxBuilder: the body of a function being wrapped
    model,      \* what the latest create_onnx_model returned or raised
    registered  \* the function registrations made on builder, in order:
                \* [name, body, via]

vars == <<builder, graph, last, shape_env, call, outcome, body_builder, model,
          registered>>

---------------------------------------------------------------------------
(* Generic helpers                                                         *)

Range(s) == {s[i] : i \in DOMAIN s}

NamesOf(vis) == {vis[i].name : i \in DOMAIN vis}

Put(d, k, v) == (k :> v) @@ d

EmptyDict == <<>>

Alphabet == "0123456789ABCDEFGHIJKLMNOPQRSTUVWXYZ_abcdefghijklmnopqrstuvwxyz"

Ord(c) == CHOOSE i \in 1..Len(Alphabet) : SubSeq(Alphabet, i, i) = c

RECURSIVE StrLess(_, _)
StrLess(a, b) ==
    IF Len(b) = 0 THEN FALSE
    ELSE IF Len(a) = 0 THEN TRUE
    ELSE IF SubSeq(a, 1, 1) = SubSeq(b, 1, 1)
         THEN StrLess(SubSeq(a, 2, Len(a)), SubSeq(b, 2, Len(b)))
         ELSE Ord(SubSeq(a, 1, 1)) < Ord(SubSeq(b, 1, 1))

RECURSIVE sorted(_)
sorted(S) ==
    IF S = {} THEN <<>>
    ELSE LET m == CHOOSE m \in S : \A o \in S \ {m} : StrLess(m, o)
         IN  <<m>> \o sorted(S \ {m})

startswith(s, p) == Len(s) >= Len(p) /\ SubSeq(s, 1, Len(p)) = p

endswith(s, p) == Len(s) >= Len(p) /\ SubSeq(s, Len(s) - Len(p) + 1, Len(s)) = p

---------------------------------------------------------------------------
(* Dtypes and dimensions                                                   *)

OnnxEnums == {"FLOAT", "DOUBLE", "INT32", "INT64", "BOOL"}

ONNX_DTYPE_MAP ==
    [d \in {"float32", "float64", "int32", "int64", "bool"} |->
        CASE d = "float32" -> "FLOAT"
          [] d = "float64" -> "DOUBLE"
          [] d = "int32"   -> "INT32"
          [] d = "int64"   -> "INT64"
          [] d = "bool"    -> "BOOL"]

NoneDim == -2

SymBase == -100

IsInt(d) == d > SymBase /\ d # NoneDim

_is_unknown_dim(d) == d \in {-1, NoneDim}

\* Defined by the source and called from nowhere in it.
_is_shape_more_specific(old, new) ==
    \/ Len(old) # Len(new)
    \/ \E i \in DOMAIN old : old[i] \in {-1, NoneDim} /\ new[i] \notin {-1, NoneDim}

---------------------------------------------------------------------------
(* OnnxBuilder                                                             *)

UniqueNameGenerator == EmptyDict

NewBuilder(enable_double_precision, converter_symbolic_shapes) ==
    [ name_generator |-> UniqueNameGenerator,
      nodes |-> <<>>,
      inputs |-> <<>>,
      outputs |-> <<>>,
      initializers |-> <<>>,
      value_info |-> <<>>,
      functions |-> EmptyDict,
      functions_order |-> <<>>,
      enable_double_precision |-> enable_double_precision,
      value_info_metadata |-> EmptyDict,
      value_info_metadata_with_origin |-> EmptyDict,
      dtype_env |-> EmptyDict,
      converter_symbolic_shapes |-> converter_symbolic_shapes,
      has_initializers_by_name |-> FALSE,
      initializers_by_name |-> {} ]

\* self.functions[name] = func: functions is the dict, functions_order the
\* order of its keys, a key assigned again keeping its place.
set_function(b, name, func) ==
    [b EXCEPT !.functions = Put(@, name, func),
              !.functions_order = IF name \in DOMAIN b.functions THEN @
                                  ELSE Append(@, name)]

\* name_generator.get(base): "<base>_<count>", one counter per base name.
name_generator_get(b, base) ==
    LET count == IF base \in DOMAIN b.name_generator
                 THEN b.name_generator[base] ELSE 0
    IN  [ b |-> [b EXCEPT !.name_generator = Put(@, base, count + 1)],
          name |-> base \o "_" \o ToString(count) ]

make_value_info(name, shape, dtype) ==
    [ name |-> name,
      shape |-> shape,
      elem_type |-> IF dtype \in OnnxEnums THEN dtype
                    ELSE IF dtype \in DOMAIN ONNX_DTYPE_MAP
                         THEN ONNX_DTYPE_MAP[dtype] ELSE "FLOAT" ]

\* The symbolic_shapes lookup of lines 374-381 is computed and then dropped:
\* what is stored is shape_tuple, the caller's shape.
register_value_info_metadata(b, name, shape, dtype, origin) ==
    [b EXCEPT
        !.value_info_metadata = Put(@, name, [shape |-> shape, dtype |-> dtype]),
        !.value_info_metadata_with_origin =
            Put(@, name, [shape |-> shape, dtype |-> dtype,
                          origin |-> IF origin = "" THEN "traced" ELSE origin])]

add_value_info(b, name, shape, dtype) ==
    LET shape_tuple == IF name \in DOMAIN b.converter_symbolic_shapes
                       THEN b.converter_symbolic_shapes[name] ELSE shape
        vi == make_value_info(name, shape_tuple, dtype)
        onnx_dtype == IF dtype \in OnnxEnums THEN dtype ELSE vi.elem_type
        b1 == [b EXCEPT !.value_info = Append(@, vi)]
    IN  register_value_info_metadata(b1, name, shape_tuple, onnx_dtype, "")

\* add_input without the "already a formal input" test.
add_input_appends_again(b, name, shape, dtype) ==
    IF \E i \in DOMAIN b.nodes : name \in Range(b.nodes[i].output)
    THEN add_value_info(b, name, shape, dtype)
    ELSE [b EXCEPT !.dtype_env = Put(@, name, dtype),
                   !.inputs = Append(@, make_value_info(name, shape, dtype))]

add_input(b, name, shape, dtype) ==
    IF \E i \in DOMAIN b.nodes : name \in Range(b.nodes[i].output)
    THEN add_value_info(b, name, shape, dtype)
    ELSE IF name \in NamesOf(b.inputs)
    THEN b
    ELSE [b EXCEPT !.dtype_env = Put(@, name, dtype),
                   !.inputs = Append(@, make_value_info(name, shape, dtype))]

add_output(b, name, shape, dtype) ==
    IF name \in NamesOf(b.outputs)
    THEN b
    ELSE [b EXCEPT !.dtype_env = Put(@, name, dtype),
                   !.outputs = Append(@, make_value_info(name, shape, dtype))]

\* add_node putting the node before the nodes already there.
add_node_in_front(b, node) == [b EXCEPT !.nodes = <<node>> \o b.nodes]

add_node(b, node) == [b EXCEPT !.nodes = Append(@, node)]

reset(b) ==
    [b EXCEPT !.name_generator = UniqueNameGenerator,
              !.nodes = <<>>,
              !.inputs = <<>>,
              !.outputs = <<>>,
              !.initializers = <<>>,
              !.value_info = <<>>,
              !.functions = EmptyDict,
              !.functions_order = <<>>,
              !.value_info_metadata = EmptyDict,
              !.value_info_metadata_with_origin = EmptyDict,
              !.dtype_env = EmptyDict]


\* A Python int, which has no width, is held as three digits in base 2^31:
\* the value is (a * 2^31 + b) * 2^31 + c with 0 <= b, c < 2^31.
PyInt(a, b, c) == [a |-> a, b |-> b, c |-> c]

\* np.iinfo(np.int32).min <= val <= np.iinfo(np.int32).max
fits_int32(v) ==
    \/ v.a = 0 /\ v.b = 0
    \/ v.a = -1 /\ v.b = 2147483647

\* np.array(val, dtype=np.int64) accepts val: -2^63 <= val <= 2^63 - 1.
fits_int64(v) == -2 <= v.a /\ v.a <= 1

\* isinstance(val, Literal): val = val.val
unwrap_literal(val) == IF val.kind = "Literal" THEN val.val ELSE val

\* np_val_dtype with a bool taken for the int it also is.
np_val_dtype_bool_as_int(b, val) ==
    CASE val.kind = "bool"  ->
            IF b.enable_double_precision THEN "int64" ELSE "int32"
      [] val.kind = "int"   ->
            IF b.enable_double_precision THEN "int64"
            ELSE IF fits_int32(val.vals[1]) THEN "int32" ELSE "int64"
      [] val.kind = "float" ->
            IF b.enable_double_precision THEN "float64" ELSE "float32"
      [] OTHER ->
            IF val.dtype \in {"float16", "float32", "float64"}
            THEN IF b.enable_double_precision THEN "float64" ELSE "float32"
            ELSE val.dtype

\* val is [kind, dtype, shape, vals]: kind is "bool", "int" or "float" for a
\* Python scalar (vals holds the one value, a PyInt for an int) and
\* "ndarray" for an array.
np_val_dtype(b, val) ==
    CASE val.kind = "bool"  -> "bool"
      [] val.kind = "int"   ->
            IF b.enable_double_precision THEN "int64"
            ELSE IF fits_int32(val.vals[1]) THEN "int32" ELSE "int64"
      [] val.kind = "float" ->
            IF b.enable_double_precision THEN "float64" ELSE "float32"
      [] OTHER ->
            IF val.dtype \in {"float16", "float32", "float64"}
            THEN IF b.enable_double_precision THEN "float64" ELSE "float32"
            ELSE val.dtype

_numpy_dtype_to_onnx(dtype) ==
    IF dtype \in OnnxEnums THEN dtype
    ELSE make_value_info("dummy", <<>>, dtype).elem_type

\* Returns [b, name, error]: the builder after the call and the new
\* constant's name; error is the OverflowError np.array raises for a Python
\* int outside int64, the builder being left as it was.
get_constant_name(b, literal_or_val) ==
    LET val == unwrap_literal(literal_or_val)
        dtype_enum == _numpy_dtype_to_onnx(np_val_dtype(b, val))
        g == name_generator_get(b, "const")
        tensor == [ name |-> g.name, data_type |-> dtype_enum,
                    dims |-> val.shape, vals |-> val.vals ]
        b1 == [g.b EXCEPT !.initializers = Append(@, tensor)]
    IN  IF val.kind = "int" /\ ~fits_int64(val.vals[1])
        THEN [b |-> b, name |-> "", error |-> "OverflowError"]
        ELSE [ b |-> register_value_info_metadata(b1, g.name, val.shape,
                                                  dtype_enum, ""),
               name |-> g.name, error |-> "" ]

---------------------------------------------------------------------------
(* Finalization: _build_graph and the passes it runs                       *)

NodeInputs(ns) == UNION {Range(ns[i].input) : i \in DOMAIN ns}

NodeOutputs(ns) == UNION {Range(ns[i].output) : i \in DOMAIN ns}

\* Inputs of the nodes held in GRAPH / GRAPHS attributes of the nodes ns
\* (one level, as lines 1374-1381 read them).
SubgraphNodeInputs(ns) == UNION {Range(ns[i].g_input) : i \in DOMAIN ns}

FunctionNodeInputs(fs) == UNION {NodeInputs(fs[f].node) : f \in DOMAIN fs}

\* filter_unused_initializers looking at the builder's own nodes only.
filter_unused_initializers_of_nodes(b) ==
    LET used_inputs == NodeInputs(b.nodes)
    IN  [b EXCEPT !.initializers =
            SelectSeq(@, LAMBDA init : init.name \in used_inputs)]

filter_unused_initializers(b) ==
    LET used_inputs == NodeInputs(b.nodes) \cup FunctionNodeInputs(b.functions)
    IN  [b EXCEPT !.initializers =
            SelectSeq(@, LAMBDA init : init.name \in used_inputs)]

\* The set available_tensors holds before node k is examined.
available_tensors(b, k) ==
    NamesOf(b.inputs) \cup NamesOf(b.initializers)
        \cup NodeOutputs(SubSeq(b.nodes, 1, k - 1))

\* TRUE iff _assert_topologically_sorted returns without raising.
_assert_topologically_sorted(b) ==
    \A k \in DOMAIN b.nodes :
        \A inp \in Range(b.nodes[k].input) :
            inp = "" \/ inp \in available_tensors(b, k)

\* _filter_redundant_inputs without the "not produced inside" test.
_filter_redundant_inputs_keeps_produced(b) ==
    LET node_in  == (NodeInputs(b.nodes) \cup SubgraphNodeInputs(b.nodes)) \ {""}
        by_name  == IF b.has_initializers_by_name
                    THEN b.initializers_by_name
                    ELSE NamesOf(b.initializers)
        g_outs   == NamesOf(b.outputs)
    IN  [b EXCEPT
            !.has_initializers_by_name = TRUE,
            !.initializers_by_name = by_name,
            !.inputs = SelectSeq(@, LAMBDA vi :
                            /\ (vi.name \in node_in \/ vi.name \in g_outs)
                            /\ vi.name \notin by_name)]

_filter_redundant_inputs(b) ==
    LET node_in  == (NodeInputs(b.nodes) \cup SubgraphNodeInputs(b.nodes)) \ {""}
        node_out == NodeOutputs(b.nodes) \ {""}
        by_name  == IF b.has_initializers_by_name
                    THEN b.initializers_by_name
                    ELSE NamesOf(b.initializers)
        g_outs   == NamesOf(b.outputs)
    IN  [b EXCEPT
            !.has_initializers_by_name = TRUE,
            !.initializers_by_name = by_name,
            !.inputs = SelectSeq(@, LAMBDA vi :
                            /\ (vi.name \in node_in \/ vi.name \in g_outs)
                            /\ vi.name \notin node_out
                            /\ vi.name \notin by_name)]

\* find_missing_value_info looking at node inputs only.
find_missing_value_info_of_inputs(b) ==
    LET known_names == NamesOf(b.inputs) \cup NamesOf(b.outputs)
                         \cup NamesOf(b.value_info) \cup NamesOf(b.initializers)
    IN  sorted(NodeInputs(b.nodes) \ known_names)

find_missing_value_info(b) ==
    LET known_names == NamesOf(b.inputs) \cup NamesOf(b.outputs)
                         \cup NamesOf(b.value_info) \cup NamesOf(b.initializers)
        node_names == NodeInputs(b.nodes) \cup NodeOutputs(b.nodes)
    IN  sorted(node_names \ known_names)

is_deterministic_name(name) ==
    endswith(name, "_deterministic") \/ name = "deterministic"

\* Returns [b, remaining_missing].
RECURSIVE _register_deterministic_parameters(_, _)
_register_deterministic_parameters(b, missing_names) ==
    IF missing_names = <<>> THEN [b |-> b, remaining_missing |-> <<>>]
    ELSE LET name == Head(missing_names)
             b1 == IF is_deterministic_name(name)
                   THEN add_value_info(
                            register_value_info_metadata(
                                b, name, <<>>, "BOOL",
                                "auto-registered deterministic flag"),
                            name, <<>>, "BOOL")
                   ELSE b
             rest == _register_deterministic_parameters(b1, Tail(missing_names))
         IN  [ b |-> rest.b,
               remaining_missing |->
                   IF is_deterministic_name(name) THEN rest.remaining_missing
                   ELSE <<name>> \o rest.remaining_missing ]

NoGraph ==
    [ nodes |-> <<>>, name |-> "", inputs |-> <<>>, outputs |-> <<>>,
      initializer |-> <<>>, value_info |-> <<>> ]

\* Returns [b, status, graph, missing, name].  status "ok": graph is the
\* GraphProto returned; "not_sorted": the RuntimeError of line 1319;
\* "missing_value_info": the RuntimeError of line 766, carrying missing and name.
\* b is the builder as the call leaves it, also when it raises.
_build_graph(b, name, is_subgraph, empty_inputs) ==
    LET b1 == filter_unused_initializers(b)
        b2 == IF ~is_subgraph THEN _filter_redundant_inputs(b1) ELSE b1
        missing0 == find_missing_value_info(b2)
        reg == IF missing0 # <<>>
               THEN _register_deterministic_parameters(b2, missing0)
               ELSE [b |-> b2, remaining_missing |-> missing0]
        missing == SelectSeq(reg.remaining_missing,
                             LAMBDA m : ~startswith(m, "conv_transpose_out"))
    IN  IF ~_assert_topologically_sorted(b1)
        THEN [ b |-> b1, status |-> "not_sorted", graph |-> NoGraph,
               missing |-> <<>>, name |-> name ]
        ELSE IF missing # <<>>
        THEN [ b |-> reg.b, status |-> "missing_value_info", graph |-> NoGraph,
               missing |-> missing, name |-> name ]
        ELSE [ b |-> reg.b, status |-> "ok",
               graph |-> [ nodes |-> reg.b.nodes,
                           name |-> name,
                           inputs |-> IF empty_inputs THEN <<>> ELSE reg.b.inputs,
                           outputs |-> reg.b.outputs,
                           initializer |-> reg.b.initializers,
                           value_info |-> reg.b.value_info ],
               missing |-> <<>>, name |-> name ]


---------------------------------------------------------------------------
(* Functions: add_function, merge_functions_from,                          *)
(* _propagate_nested_functions, create_onnx_model                          *)

NameSeq(vis) == [i \in DOMAIN vis |-> vis[i].name]

\* sub_converter=None
NoConverter == [invars |-> <<>>, var_to_name |-> EmptyDict, none |-> TRUE]

\* A sub_converter with jaxpr.invars and var_to_name.
SubConverter(invars, var_to_name) ==
    [invars |-> invars, var_to_name |-> var_to_name, none |-> FALSE]

\* helper.make_tensor_value_info
make_tensor_value_info(name, elem_type, shape) ==
    [name |-> name, shape |-> shape, elem_type |-> elem_type]

add_scalar_input(b, name, dtype) ==
    register_value_info_metadata(
        [b EXCEPT !.inputs = Append(@, make_value_info(name, <<>>, dtype))],
        name, <<>>, dtype, "call_parameter")

\* sub_builder with "deterministic" registered and added as a scalar BOOL.
deterministic_as_bool(sub_builder, origin) ==
    add_value_info(
        register_value_info_metadata(sub_builder, "deterministic", <<>>, "BOOL", origin),
        "deterministic", <<>>, "BOOL")

\* Lines 889-920: the loop over sub_converter.jaxpr.invars.
\* [sub, names]: the sub-builder and final_input_names.
RECURSIVE function_inputs_of_invars(_, _, _, _)
function_inputs_of_invars(sub, names, invars, var_to_name) ==
    IF invars = <<>> THEN [sub |-> sub, names |-> names]
    ELSE LET var == Head(invars)
             known == var \in DOMAIN var_to_name
             final_name == var_to_name[var]
         IN  IF ~known \/ final_name \in Range(names)
             THEN function_inputs_of_invars(sub, names, Tail(invars), var_to_name)
             ELSE function_inputs_of_invars(
                      IF final_name = "deterministic"
                      THEN deterministic_as_bool(sub, "function_param_forced")
                      ELSE sub,
                      Append(names, final_name), Tail(invars), var_to_name)

\* Lines 923-941: the loop over param_input_names, b being the outer builder.
RECURSIVE function_inputs_of_params(_, _, _, _)
function_inputs_of_params(b, sub, names, params) ==
    IF params = <<>> THEN [sub |-> sub, names |-> names]
    ELSE LET param_name == Head(params)
             known == param_name \in DOMAIN b.value_info_metadata
             meta == b.value_info_metadata[param_name]
             sub1 == IF ~known THEN add_scalar_input(sub, param_name, "FLOAT")
                     ELSE IF meta.shape = <<>>
                     THEN add_scalar_input(sub, param_name, meta.dtype)
                     ELSE add_input(sub, param_name, meta.shape, meta.dtype)
         IN  IF param_name \in Range(names)
             THEN function_inputs_of_params(b, sub, names, Tail(params))
             ELSE function_inputs_of_params(b, sub1, Append(names, param_name),
                                            Tail(params))

\* Lines 960-977: the ValueInfo of the inputs the outer builder b knows.
RECURSIVE input_value_infos(_, _)
input_value_infos(b, names) ==
    IF names = <<>> THEN <<>>
    ELSE LET input_name == Head(names)
             meta == b.value_info_metadata[input_name]
             vi == make_tensor_value_info(
                       input_name,
                       IF input_name = "deterministic" THEN "BOOL" ELSE meta.dtype,
                       meta.shape)
         IN  IF input_name \in DOMAIN b.value_info_metadata
             THEN <<vi>> \o input_value_infos(b, Tail(names))
             ELSE input_value_infos(b, Tail(names))

\* Lines 980-1000: combined_value_info_dict, as the list of its values.
RECURSIVE combined_value_info(_, _)
combined_value_info(combined, vis) ==
    IF vis = <<>>
    THEN [i \in DOMAIN combined |->
             IF combined[i].name = "deterministic"
             THEN make_tensor_value_info("deterministic", "BOOL", <<>>)
             ELSE combined[i]]
    ELSE LET vi == Head(vis)
             at == {i \in DOMAIN combined : combined[i].name = vi.name}
         IN  combined_value_info(
                 IF at = {} THEN Append(combined, vi) ELSE combined, Tail(vis))

\* {vi.name: vi for vi in input_value_infos} as the list of its values: one
\* entry per name, at the place of the first, holding the last.
RECURSIVE dict_by_name(_, _)
dict_by_name(seen, vis) ==
    IF vis = <<>> THEN seen
    ELSE LET vi == Head(vis)
             at == {i \in DOMAIN seen : seen[i].name = vi.name}
         IN  dict_by_name(
                 IF at = {} THEN Append(seen, vi)
                 ELSE [i \in DOMAIN seen |-> IF i \in at THEN vi ELSE seen[i]],
                 Tail(vis))

make_function(fname, inputs, outputs, nodes, value_info) ==
    [ name |-> fname, input |-> inputs, output |-> outputs, node |-> nodes,
      value_info |-> value_info ]

\* Returns [b, sub_builder, status, missing, name]: the two builders as the
\* call leaves them; status "ok" when it returns name, "missing_value_info"
\* for the RuntimeError of line 863 or of line 766, "not_sorted" for the one
\* _assert_topologically_sorted raises inside create_graph.
add_function(b, name, sub_builder, param_input_names, sub_converter) ==
    LET raise(sub, status, missing) ==
            [ b |-> b, sub_builder |-> sub, status |-> status,
              missing |-> missing, name |-> name ]
        \* Lines 956-1015, built being create_graph's result and resolved
        \* the sub-builder with final_input_names.
        store(built, resolved) ==
            CHOOSE r \in
              { [ b |-> set_function(
                            b, name,
                            make_function(name, resolved.names,
                                          NameSeq(built.graph.outputs),
                                          built.graph.nodes,
                                          final_function_value_info)),
                  sub_builder |-> resolved.sub, status |-> "ok",
                  missing |-> <<>>, name |-> name ] :
                  final_function_value_info \in
                      { combined_value_info(
                            dict_by_name(<<>>, input_value_infos(b, resolved.names)),
                            resolved.sub.value_info) } } : TRUE
        \* Lines 874-954.
        resolve(built) ==
            IF ~sub_converter.none
            THEN CHOOSE r \in
                   { function_inputs_of_params(b, data.sub, data.names,
                                               param_input_names) :
                       data \in { function_inputs_of_invars(
                                      built.b, <<>>, sub_converter.invars,
                                      sub_converter.var_to_name) } } : TRUE
            ELSE [ sub |-> built.b,
                   names |-> NameSeq(built.graph.inputs) \o param_input_names ]
        \* Lines 868-1015.
        wrap(built) ==
            IF built.status # "ok"
            THEN raise(built.b, built.status, built.missing)
            ELSE CHOOSE r \in
                   { store(built, resolved) : resolved \in {resolve(built)} } : TRUE
        \* Lines 862-1015, sub being the sub-builder after lines 843-860.
        check(sub, missing) ==
            IF missing # <<>> THEN raise(sub, "missing_value_info", missing)
            ELSE CHOOSE r \in
                   { wrap(built) :
                       built \in { _build_graph(sub, name \o "_graph",
                                                FALSE, FALSE) } } : TRUE
        \* Lines 843-860.
        register(missing) ==
            IF "deterministic" \in Range(missing)
            THEN deterministic_as_bool(sub_builder, "function_param_auto")
            ELSE sub_builder
        recheck(sub) ==
            CHOOSE r \in
              { check(sub, missing) :
                  missing \in {find_missing_value_info(sub)} } : TRUE
    IN  CHOOSE r \in
          { recheck(sub) :
              sub \in {register(find_missing_value_info(sub_builder))} } : TRUE

\* merge_functions_from assigning every function of other.
RECURSIVE merge_functions_from_overwriting(_, _, _)
merge_functions_from_overwriting(b, other, names) ==
    IF names = <<>> THEN b
    ELSE merge_functions_from_overwriting(
             set_function(b, Head(names), other.functions[Head(names)]),
             other, Tail(names))

\* merge_functions_from(other), names being the keys of other.functions
\* still to visit.
RECURSIVE merge_functions_from(_, _, _)
merge_functions_from(b, other, names) ==
    IF names = <<>> THEN b
    ELSE merge_functions_from(
             IF Head(names) \notin DOMAIN b.functions
             THEN set_function(b, Head(names), other.functions[Head(names)])
             ELSE b,
             other, Tail(names))

\* _propagate_nested_functions(sub_builder): [b, warnings], warnings the
\* names logged as "Skipping already-registered function".
RECURSIVE _propagate_nested_functions(_, _, _)
_propagate_nested_functions(b, sub_builder, names) ==
    IF names = <<>> THEN [b |-> b, warnings |-> <<>>]
    ELSE LET name == Head(names)
             fresh == name \notin DOMAIN b.functions
             rest == _propagate_nested_functions(
                         IF fresh
                         THEN set_function(b, name, sub_builder.functions[name])
                         ELSE b,
                         sub_builder, Tail(names))
         IN  [ b |-> rest.b,
               warnings |-> IF fresh THEN rest.warnings
                            ELSE <<name>> \o rest.warnings ]

\* {f.name: f for f in functions}.values(): one function per name, at the
\* place of the first with that name, the last with that name kept.
RECURSIVE unique_function_protos(_, _)
unique_function_protos(unique, functions) ==
    IF functions = <<>> THEN unique
    ELSE LET f == Head(functions)
             at == {i \in DOMAIN unique : unique[i].name = f.name}
         IN  unique_function_protos(
                 IF at = {} THEN Append(unique, f)
                 ELSE [i \in DOMAIN unique |-> IF i \in at THEN f ELSE unique[i]],
                 Tail(functions))

\* [graph, functions, duplicates]: the ModelProto, duplicates being the
\* names the warning "Duplicate ONNX functions detected" lists.
_finalize_model(b, g) ==
    LET values == [i \in DOMAIN b.functions_order |->
                      b.functions[b.functions_order[i]]]
        unique == unique_function_protos(<<>>, values)
        names == NameSeq(unique)
    IN  [ graph |-> g, functions |-> unique,
          duplicates |-> {names[i] : i \in {j \in DOMAIN names :
                                \E k \in 1..(j - 1) : names[k] = names[j]}} ]

\* Returns [b, status, model, missing]: status as _build_graph gives it.
create_onnx_model(b, model_name) ==
    CHOOSE r \in
      { [ b |-> built.b, status |-> built.status, missing |-> built.missing,
          model |-> IF built.status = "ok"
                    THEN _finalize_model(built.b, built.graph)
                    ELSE [ graph |-> NoGraph, functions |-> <<>>,
                           duplicates |-> {} ] ] :
          built \in {_build_graph(b, model_name, FALSE, FALSE)} } : TRUE

---------------------------------------------------------------------------
(* The builder as a state machine: one action per public method           *)

MaxSize == 5
MaxNodes == 2
MaxValueInfo == 2
MaxConsts == 1

\* helper.make_node: attribute holds the plain attributes, g_input the inputs
\* of the nodes inside its GRAPH / GRAPHS attributes, g_deeper_input the
\* inputs of the nodes inside the GRAPH / GRAPHS attributes of those nodes,
\* at any depth.
make_node(op_type, input, output, attribute, g_input) ==
    [ op_type |-> op_type, input |-> input, output |-> output,
      attribute |-> attribute, g_input |-> g_input, g_deeper_input |-> <<>> ]

\* node with a control-flow node inside its subgraph, whose own subgraph
\* nodes consume the names deeper_input.
WithNestedSubgraph(node, deeper_input) ==
    [node EXCEPT !.g_deeper_input = deeper_input]

Node(op_type, input, output, g_input) ==
    make_node(op_type, input, output, EmptyDict, g_input)

\* Number of entries the builder holds.
Size(b) ==
    Len(b.nodes) + Len(b.inputs) + Len(b.outputs) + Len(b.value_info)
        + Len(b.initializers)

NoCall == [op |-> "none"]

\* No second builder, no model.
NoBuilder == [nodes |-> <<>>]

NoModel == [status |-> "none"]

NoOutcome == [status |-> "none"]

NotBuilt ==
    [ status |-> "none", graph |-> NoGraph, missing |-> <<>>, name |-> "",
      is_subgraph |-> FALSE, empty_inputs |-> FALSE ]

\* A call may be made while the builder is below its size bounds.
MayCall ==
    /\ Size(builder) < MaxSize
    /\ Len(builder.value_info) < MaxValueInfo

Called(op, name, b) ==
    /\ builder' = b
    /\ last' = [op |-> op, name |-> name]
    /\ graph' = NotBuilt
    /\ UNCHANGED <<shape_env, call, outcome, body_builder, model, registered>>

AddInput(name, shape, dtype) ==
    /\ MayCall
    /\ Called("add_input", name, add_input(builder, name, shape, dtype))

AddOutput(name, shape, dtype) ==
    /\ MayCall
    /\ Called("add_output", name, add_output(builder, name, shape, dtype))

AddValueInfo(name, shape, dtype) ==
    /\ MayCall
    /\ Called("add_value_info", name, add_value_info(builder, name, shape, dtype))

AddNode(node) ==
    /\ MayCall
    /\ Len(builder.nodes) < MaxNodes
    /\ Called("add_node", "", add_node(builder, node))

GetConstantName(val) ==
    /\ MayCall
    /\ MaxConsts > 0
    /\ \A base \in DOMAIN builder.name_generator :
            builder.name_generator[base] < MaxConsts
    /\ LET r == get_constant_name(builder, val)
       IN  Called("get_constant_name", r.name, r.b)

BuildGraph(name, is_subgraph, empty_inputs) ==
    LET r == _build_graph(builder, name, is_subgraph, empty_inputs)
    IN  /\ builder' = r.b
        /\ graph' = [ status |-> r.status, graph |-> r.graph,
                      missing |-> r.missing, name |-> r.name,
                      is_subgraph |-> is_subgraph,
                      empty_inputs |-> empty_inputs ]
        /\ last' = [op |-> "_build_graph", name |-> name]
        /\ UNCHANGED <<shape_env, call, outcome, body_builder, model, registered>>

Reset ==
    /\ builder' = reset(builder)
    /\ graph' = NotBuilt
    /\ last' = [op |-> "reset", name |-> ""]
    /\ UNCHANGED <<shape_env, call, outcome, body_builder, model, registered>>

Init ==
    /\ builder = NewBuilder(FALSE, EmptyDict)
    /\ graph = NotBuilt
    /\ last = [op |-> "__init__", name |-> ""]
    /\ shape_env = EmptyDict
    /\ call = NoCall
    /\ outcome = NoOutcome
    /\ body_builder = NoBuilder
    /\ model = NoModel
    /\ registered = <<>>

Int64Array(vals) ==
    [kind |-> "ndarray", dtype |-> "int64", shape |-> <<Len(vals)>>, vals |-> vals]

\* Specification Spec: graphs over the tensors x, y and one constant.
Nodes ==
    { Node("Op", <<"x">>, <<"y">>, <<>>),
      Node("Op", <<>>, <<"x">>, <<>>),
      Node("Op", <<"const_0">>, <<"y">>, <<>>) }

Next ==
    \/ \E name \in {"x", "y"} : AddInput(name, <<2>>, "float32")
    \/ AddOutput("y", <<2>>, "float32")
    \/ AddValueInfo("x", <<2>>, "float32")
    \/ \E node \in Nodes : AddNode(node)
    \/ GetConstantName(Int64Array(<<0>>))
    \/ \E is_subgraph \in BOOLEAN, empty_inputs \in BOOLEAN :
            BuildGraph("g", is_subgraph, empty_inputs)
    \/ Reset

Spec == Init /\ [][Next]_vars

---------------------------------------------------------------------------
(* The scatter legalizer: scatter_utils.py                                 *)
(*                                                                         *)
(* s is the converter (Jaxpr2OnnxConverter): its builder, its shape_env    *)
(* and concrete_values, the answers of                                     *)
(* get_concrete_value_from_symbolic_dim (NoneDim for None).  A shape built *)
(* by the legalizer is [shape, np]: np says that shape[1] is a numpy       *)
(* integer (a result of np.prod), for which isinstance(d, int) is false.   *)

Converter(b, env, concrete_values) ==
    [builder |-> b, shape_env |-> env, concrete_values |-> concrete_values]

s_get_unique_name(s, prefix) ==
    LET g == name_generator_get(s.builder, prefix)
    IN  [s |-> [s EXCEPT !.builder = g.b], name |-> g.name]

s_get_constant_name(s, val) ==
    LET r == get_constant_name(s.builder, val)
    IN  [s |-> [s EXCEPT !.builder = r.b], name |-> r.name]

s_add_node(s, node) == [s EXCEPT !.builder = add_node(@, node)]

s_add_shape_info(s, name, shape, dtype) ==
    [s EXCEPT !.builder = add_value_info(@, name, shape, dtype)]

\* _manually_ensure_shape_env_entry with the except clause of line 81
\* entered at once: the failure is logged and nothing recorded.
_manually_ensure_shape_env_entry_failing(s, tensor_name, tensor_shape, dtype) == s

\* _ensure_np_dtype succeeds on the dtypes used here, so the except clause
\* of line 81 is not entered before shape_env is written.
_manually_ensure_shape_env_entry(s, tensor_name, tensor_shape, dtype) ==
    s_add_shape_info(
        [s EXCEPT !.shape_env =
            Put(@, tensor_name, [shape |-> tensor_shape, dtype |-> dtype])],
        tensor_name, tensor_shape, dtype)

_is_dim_symbolic(dim_val) == ~IsInt(dim_val)

_are_dims_equal(dim1, dim2) ==
    IF ~_is_dim_symbolic(dim1) /\ ~_is_dim_symbolic(dim2) THEN dim1 = dim2
    ELSE IF _is_dim_symbolic(dim1) # _is_dim_symbolic(dim2) THEN FALSE
    ELSE dim1 = dim2    \* dim1 is dim2

_are_shapes_equal(shape1, shape2) ==
    /\ Len(shape1) = Len(shape2)
    /\ \A i \in DOMAIN shape1 : _are_dims_equal(shape1[i], shape2[i])

\* [ok, shape, index]: ok FALSE is the ValueError of line 153, raised for the
\* dimension at position index.
_make_shape_concrete_for_prod(shp, s) ==
    LET resolved(d) == IsInt(d) \/ s.concrete_values[d] # NoneDim
        bad == {i \in DOMAIN shp : ~resolved(shp[i])}
    IN  IF bad # {}
        THEN [ ok |-> FALSE, shape |-> <<>>,
               index |-> CHOOSE i \in bad : \A j \in bad : i <= j ]
        ELSE [ ok |-> TRUE,
               shape |-> [i \in DOMAIN shp |->
                            IF IsInt(shp[i]) THEN shp[i]
                            ELSE s.concrete_values[shp[i]]],
               index |-> 0 ]

\* np_prod keeping the first dimension only.
np_prod_of_first_dimension(shp) == IF shp = <<>> THEN 1 ELSE Head(shp)

RECURSIVE np_prod(_)
np_prod(shp) == IF shp = <<>> THEN 1 ELSE Head(shp) * np_prod(Tail(shp))

PyShape(shp) == [shape |-> shp, np |-> FALSE]

NpShape(n, k) == [shape |-> <<n, k>>, np |-> TRUE]

\* isinstance(d, int), per position of a shape the legalizer built.
PyInts(t) == [i \in DOMAIN t.shape |-> IsInt(t.shape[i]) /\ ~(t.np /\ i = 1)]

\* complex_indices_shape when the diagnostic is never logged.
complex_indices_shape_never(current, index_depth_k) == FALSE

\* Lines 271-308: the branch that logs "Complex JAX indices_shape ... for
\* K=... Attempting generic reshape to (N,K)." is the one taken.
complex_indices_shape(current, index_depth_k) ==
    LET n == Len(current)
    IN  /\ n # 0
        /\ ~(n = 1 /\ index_depth_k > 0 /\ _are_dims_equal(current[1], index_depth_k))
        /\ ~(index_depth_k > 0 /\ n > 0 /\ _are_dims_equal(current[n], index_depth_k))
        /\ ~(index_depth_k = 0 /\ n = 1)
        /\ ~(n = 2 /\ _are_dims_equal(current[2], index_depth_k))

\* target_indices_shape without the comparison of the trailing dimension
\* of rank-2 indices with index_depth_k.
target_indices_shape_keeps_rank2(s, current, index_depth_k) ==
    LET n == Len(current)
        prod_or_minus_one(dims) ==
            LET c == _make_shape_concrete_for_prod(dims, s)
            IN  IF c.ok THEN NpShape(np_prod(c.shape), index_depth_k)
                ELSE PyShape(<<-1, index_depth_k>>)
    IN  IF n = 0 THEN PyShape(<<1, IF index_depth_k > 0 THEN index_depth_k ELSE 0>>)
        ELSE IF n = 2 THEN PyShape(current)
        ELSE IF n = 1 /\ index_depth_k > 0
                /\ _are_dims_equal(current[1], index_depth_k)
        THEN PyShape(<<1, index_depth_k>>)
        ELSE IF index_depth_k > 0 /\ n > 0
                /\ _are_dims_equal(current[n], index_depth_k)
        THEN prod_or_minus_one(SubSeq(current, 1, n - 1))
        ELSE IF index_depth_k = 0 /\ n = 1
        THEN PyShape(<<current[1], 0>>)
        ELSE IF n > 1 /\ _are_dims_equal(current[n], index_depth_k)
        THEN prod_or_minus_one(SubSeq(current, 1, n - 1))
        ELSE PyShape(<<-1, index_depth_k>>)

\* Lines 271-337.
target_indices_shape(s, current, index_depth_k) ==
    LET n == Len(current)
        prod_or_minus_one(dims) ==
            LET c == _make_shape_concrete_for_prod(dims, s)
            IN  IF c.ok THEN NpShape(np_prod(c.shape), index_depth_k)
                ELSE PyShape(<<-1, index_depth_k>>)
    IN  IF n = 0 THEN PyShape(<<1, IF index_depth_k > 0 THEN index_depth_k ELSE 0>>)
        ELSE IF n = 1 /\ index_depth_k > 0
                /\ _are_dims_equal(current[1], index_depth_k)
        THEN PyShape(<<1, index_depth_k>>)
        ELSE IF index_depth_k > 0 /\ n > 0
                /\ _are_dims_equal(current[n], index_depth_k)
        THEN IF SubSeq(current, 1, n - 1) = <<>>
             THEN PyShape(<<1, index_depth_k>>)
             ELSE prod_or_minus_one(SubSeq(current, 1, n - 1))
        ELSE IF index_depth_k = 0 /\ n = 1
        THEN PyShape(<<current[1], 0>>)
        ELSE IF n = 2 /\ _are_dims_equal(current[2], index_depth_k)
        THEN PyShape(current)
        ELSE IF n > 1 /\ _are_dims_equal(current[n], index_depth_k)
        THEN prod_or_minus_one(SubSeq(current, 1, n - 1))
        ELSE IF n = 1 /\ index_depth_k = 0
        THEN LET c == _make_shape_concrete_for_prod(<<current[1]>>, s)
             IN  PyShape(<<IF c.ok THEN c.shape[1] ELSE -1, index_depth_k>>)
        ELSE PyShape(<<-1, index_depth_k>>)

\* The loops of lines 346-369 and 808-828: the Reshape target written as a
\* constant.  [ok, vals]; ok FALSE when _make_shape_concrete_for_prod raises.
RECURSIVE reshape_target_list(_, _, _, _, _)
reshape_target_list(shp, py_ints, s, i, has_minus_one_already) ==
    IF i > Len(shp) THEN [ok |-> TRUE, vals |-> <<>>]
    ELSE LET c == _make_shape_concrete_for_prod(<<shp[i]>>, s)
             here == IF py_ints[i] THEN shp[i]
                     ELSE IF ~has_minus_one_already THEN -1
                     ELSE c.shape[1]
             rest == reshape_target_list(shp, py_ints, s, i + 1,
                                         has_minus_one_already \/ ~py_ints[i])
         IN  IF ~py_ints[i] /\ has_minus_one_already /\ ~c.ok
             THEN [ok |-> FALSE, vals |-> <<>>]
             ELSE [ok |-> rest.ok,
                   vals |-> IF rest.ok THEN <<here>> \o rest.vals ELSE <<>>]

Int64Scalar(v) ==
    [kind |-> "ndarray", dtype |-> "int64", shape |-> <<>>, vals |-> <<v>>]

NoError == [kind |-> "none"]

\* Lines 226-267: the operand and the indices are recorded and the indices
\* cast to int64.  [s, name]: name is current_indices_name.
scatter_indices_to_int64(s, args) ==
    LET s1 == _manually_ensure_shape_env_entry(
                  s, args.operand.name, args.operand.shape, args.operand.dtype)
        s2 == _manually_ensure_shape_env_entry(
                  s1, args.indices.name, args.indices.shape, args.indices.dtype)
        u  == s_get_unique_name(s2, args.indices.name \o "_int64")
        s3 == s_add_node(u.s, make_node("Cast", <<args.indices.name>>, <<u.name>>,
                                        [to |-> "INT64"], <<>>))
    IN  IF args.indices.dtype # "int64"
        THEN [ s |-> _manually_ensure_shape_env_entry(
                         s3, u.name, args.indices.shape, "int64"),
               name |-> u.name ]
        ELSE [s |-> s2, name |-> args.indices.name]

\* Lines 269-398: the indices are brought to their target shape.
\* [s, error, name, target]: name is final_indices_name_to_return.
scatter_indices_to_target(s, current_indices_name, current_shape, index_depth_k) ==
    LET target == target_indices_shape(s, current_shape, index_depth_k)
        u  == s_get_unique_name(s, current_indices_name \o "_reshaped_idx_auto")
        l  == reshape_target_list(target.shape, PyInts(target), u.s, 1, FALSE)
        c  == s_get_constant_name(u.s, Int64Array(l.vals))
        s1 == s_add_node(c.s, make_node("Reshape", <<current_indices_name, c.name>>,
                                        <<u.name>>, EmptyDict, <<>>))
    IN  IF _are_shapes_equal(current_shape, target.shape)
        THEN [ s |-> _manually_ensure_shape_env_entry(
                         s, current_indices_name, target.shape, "int64"),
               error |-> NoError, name |-> current_indices_name,
               target |-> target ]
        ELSE IF ~l.ok
        THEN [ s |-> u.s,
               error |-> [kind |-> "reshape_target_not_concrete",
                          shape |-> target.shape],
               name |-> "", target |-> target ]
        ELSE [ s |-> _manually_ensure_shape_env_entry(
                         s1, u.name, target.shape, "int64"),
               error |-> NoError, name |-> u.name, target |-> target ]

\* compute_expected_updates_shape(dnums, operand_shape, indices_shape),
\* lines 159-205.  [error, shape]: error "inconsistent_dnums" is the
\* ValueError of line 185, "index_error" the assignment result[pos] of line
\* 198 outside the list, "stop_iteration" next(batch_iter) of line 203 on
\* the exhausted iterator.  A negative position counts from the end.
compute_expected_updates_shape(dnums, operand_shape, indices_shape) ==
    LET batch_shape == SubSeq(indices_shape, 1, Len(indices_shape) - 1)
        inserted == Range(dnums.inserted_window_dims)
        window_operand_dims ==
            SelectSeq([d \in 1..Len(operand_shape) |-> d - 1],
                      LAMBDA d : d \notin inserted)
        window_sizes ==
            [i \in DOMAIN window_operand_dims |->
                operand_shape[window_operand_dims[i] + 1]]
        updates_rank == Len(batch_shape) + Len(window_sizes)
        uwd == dnums.update_window_dims
        slot(pos) == IF pos < 0 THEN pos + updates_rank + 1 ELSE pos + 1
        placed(i) == {j \in DOMAIN uwd : slot(uwd[j]) = i}
        free_before(i) == Cardinality({j \in 1..i : placed(j) = {}})
    IN  IF Len(window_operand_dims) # Len(uwd)
        THEN [error |-> "inconsistent_dnums", shape |-> <<>>]
        ELSE IF \E j \in DOMAIN uwd : slot(uwd[j]) \notin 1..updates_rank
        THEN [error |-> "index_error", shape |-> <<>>]
        ELSE IF free_before(updates_rank) > Len(batch_shape)
        THEN [error |-> "stop_iteration", shape |-> <<>>]
        ELSE [error |-> "none",
              shape |-> [i \in 1..updates_rank |->
                           IF placed(i) # {}
                           THEN window_sizes[CHOOSE j \in placed(i) :
                                               \A h \in placed(i) : h <= j]
                           ELSE batch_shape[free_before(i)]]]

\* Lines 416-449: current_expected_onnx_updates_shape of the default path.
default_expected_updates_shape(target, operand_shape) ==
    LET k == target.shape[Len(target.shape)]
    IN  IF ~IsInt(k)
        THEN [error |-> [kind |-> "depth_not_concrete", k |-> k],
              expected |-> PyShape(<<>>)]
        ELSE IF k < 0
        THEN [error |-> [kind |-> "depth_negative", k |-> k],
              expected |-> PyShape(<<>>)]
        ELSE IF k > Len(operand_shape)
        THEN [error |-> [kind |-> "depth_exceeds_operand_rank", k |-> k,
                         rank |-> Len(operand_shape)],
              expected |-> PyShape(<<>>)]
        ELSE [error |-> NoError,
              expected |->
                [shape |-> SubSeq(target.shape, 1, Len(target.shape) - 1)
                             \o SubSeq(operand_shape, k + 1, Len(operand_shape)),
                 np |-> target.np]]

\* Lines 452-513.
use_depth2_for_batched_window_scatter(args) ==
    LET dn == args.dimension_numbers
        operand == args.operand.shape
        updates == args.updates.shape
        indices == args.indices.shape
        op_rank == Len(operand)
        upd_rank == Len(updates)
        axis == dn.scatter_dims_to_operand_dims[1]
        shapes_match_for_depth2_pattern ==
            IF axis > 0
            THEN /\ _are_dims_equal(operand[1], updates[1])
                 /\ op_rank > axis + 1 =>
                       /\ axis < upd_rank
                       /\ _are_shapes_equal(SubSeq(operand, axis + 2, op_rank),
                                            SubSeq(updates, axis + 2, upd_rank))
            ELSE IF axis = 0
            THEN IF op_rank > 1
                 THEN _are_shapes_equal(Tail(operand), Tail(updates))
                 ELSE op_rank = 1
            ELSE TRUE
    IN  /\ Len(dn.scatter_dims_to_operand_dims) = 1
        /\ Len(dn.update_window_dims) = upd_rank
        /\ op_rank = upd_rank
        /\ dn.operand_batching_dims = <<>>
        /\ dn.inserted_window_dims = <<>>
        /\ (indices = <<>> \/ _are_shapes_equal(indices, <<1>>))
        /\ axis < op_rank
        /\ shapes_match_for_depth2_pattern
        /\ op_rank > 0
        /\ axis < upd_rank

\* One emitted node with its output recorded: add_node, then
\* _manually_ensure_shape_env_entry for the output.
emit(s, op_type, input, output, attribute, shape, dtype) ==
    _manually_ensure_shape_env_entry(
        s_add_node(s, make_node(op_type, input, <<output>>, attribute, <<>>)),
        output, shape, dtype)

NotConcrete(context_msg, shp, c) ==
    [kind |-> "not_concrete", context_msg |-> context_msg, shape |-> shp,
     index |-> c.index]

\* The statements of the batched-window strategy, each assigning one local
\* variable var: var = s.get_unique_name(prefix); var = the name
\* s.get_constant_name(val) returns; a node of inputs input (local
\* variables) and output var, added and recorded with shape.
unique_name_statement(var, prefix) ==
    [ stmt |-> "get_unique_name", var |-> var, prefix |-> prefix, val |-> <<>>,
      op_type |-> "", input |-> <<>>, attribute |-> EmptyDict, shape |-> <<>> ]

constant_statement(var, val) ==
    [ stmt |-> "get_constant_name", var |-> var, prefix |-> "", val |-> val,
      op_type |-> "", input |-> <<>>, attribute |-> EmptyDict, shape |-> <<>> ]

node_statement(op_type, input, var, attribute, shape) ==
    [ stmt |-> "add_node", var |-> var, prefix |-> "", val |-> <<>>,
      op_type |-> op_type, input |-> input, attribute |-> attribute,
      shape |-> shape ]

\* One statement run on [s, local], local the local variables.
run_statement(frame, st) ==
    LET s == frame.s
        local == frame.local
        u == s_get_unique_name(s, st.prefix)
        c == s_get_constant_name(s, st.val)
    IN  IF st.stmt = "get_unique_name"
        THEN [s |-> u.s, local |-> Put(local, st.var, u.name)]
        ELSE IF st.stmt = "get_constant_name"
        THEN [s |-> c.s, local |-> Put(local, st.var, c.name)]
        ELSE [ s |-> emit(s, st.op_type,
                          [i \in DOMAIN st.input |-> local[st.input[i]]],
                          local[st.var], st.attribute, st.shape, "int64"),
               local |-> local ]

RECURSIVE run_statements(_, _)
run_statements(frame, statements) ==
    CHOOSE r \in
        { IF t = <<>> THEN f
          ELSE run_statements(run_statement(f, Head(t)), Tail(t)) :
            f \in {frame}, t \in {statements} } : TRUE

\* Lines 515-698: the (B, L, 2) indices of the batched-window strategy.
\* [s, error, name]: name is indices_2d_name.
depth2_indices(s, args, current_indices_name) ==
    LET operand == args.operand.shape
        updates == args.updates.shape
        scatter_op_axis_idx == args.dimension_numbers.scatter_dims_to_operand_dims[1]
        co == _make_shape_concrete_for_prod(operand, s)
        cu == _make_shape_concrete_for_prod(updates, s)
        B_val == co.shape[1]
        L_val == cu.shape[scatter_op_axis_idx + 1]
        statements == <<
            unique_name_statement("col_start_scalar_name",
                                  current_indices_name \o "_scalar_d2"),
            constant_statement("squeeze_axes", Int64Array(<<0>>)),
            node_statement("Squeeze", <<"current_indices_name", "squeeze_axes">>,
                           "col_start_scalar_name", EmptyDict, <<>>),
            constant_statement("arange_b_end_name", Int64Scalar(B_val)),
            unique_name_statement("arange_b_name", "arange_b_d2"),
            constant_statement("zero_b", Int64Scalar(0)),
            constant_statement("one_b", Int64Scalar(1)),
            node_statement("Range", <<"zero_b", "arange_b_end_name", "one_b">>,
                           "arange_b_name", EmptyDict, <<B_val>>),
            unique_name_statement("unsqueeze_b_name", "unsqueeze_b_d2"),
            constant_statement("unsqueeze_b_axes", Int64Array(<<1>>)),
            node_statement("Unsqueeze", <<"arange_b_name", "unsqueeze_b_axes">>,
                           "unsqueeze_b_name", EmptyDict, <<B_val, 1>>),
            unique_name_statement("batch_indices_intermediate_name",
                                  "batch_indices_BL_d2"),
            constant_statement("expand_b_shape", Int64Array(<<B_val, L_val>>)),
            node_statement("Expand", <<"unsqueeze_b_name", "expand_b_shape">>,
                           "batch_indices_intermediate_name", EmptyDict,
                           <<B_val, L_val>>),
            constant_statement("arange_l_end_name", Int64Scalar(L_val)),
            unique_name_statement("arange_l_name", "arange_l_d2"),
            constant_statement("zero_l", Int64Scalar(0)),
            constant_statement("one_l", Int64Scalar(1)),
            node_statement("Range", <<"zero_l", "arange_l_end_name", "one_l">>,
                           "arange_l_name", EmptyDict, <<L_val>>),
            unique_name_statement("add_start_name", "add_start_col_d2"),
            node_statement("Add", <<"arange_l_name", "col_start_scalar_name">>,
                           "add_start_name", EmptyDict, <<L_val>>),
            unique_name_statement("unsqueeze_l_name", "unsqueeze_l_d2"),
            constant_statement("unsqueeze_l_axes", Int64Array(<<0>>)),
            node_statement("Unsqueeze", <<"add_start_name", "unsqueeze_l_axes">>,
                           "unsqueeze_l_name", EmptyDict, <<1, L_val>>),
            unique_name_statement("col_indices_intermediate_name",
                                  "col_indices_BL_d2"),
            constant_statement("expand_l_shape", Int64Array(<<B_val, L_val>>)),
            node_statement("Expand", <<"unsqueeze_l_name", "expand_l_shape">>,
                           "col_indices_intermediate_name", EmptyDict,
                           <<B_val, L_val>>),
            unique_name_statement("final_batch_indices_name",
                                  "final_batch_indices_d2"),
            constant_statement("final_batch_axes", Int64Array(<<2>>)),
            node_statement("Unsqueeze",
                           <<"batch_indices_intermediate_name", "final_batch_axes">>,
                           "final_batch_indices_name", EmptyDict,
                           <<B_val, L_val, 1>>),
            unique_name_statement("final_col_indices_name", "final_col_indices_d2"),
            constant_statement("final_col_axes", Int64Array(<<2>>)),
            node_statement("Unsqueeze",
                           <<"col_indices_intermediate_name", "final_col_axes">>,
                           "final_col_indices_name", EmptyDict,
                           <<B_val, L_val, 1>>),
            unique_name_statement("indices_2d_name", "indices_2d_BL2_d2"),
            node_statement("Concat",
                           <<"final_batch_indices_name", "final_col_indices_name">>,
                           "indices_2d_name", [axis |-> 2],
                           <<operand[1], updates[scatter_op_axis_idx + 1], 2>>) >>
        frame == run_statements(
                     [ s |-> s,
                       local |-> Put(EmptyDict, "current_indices_name",
                                     current_indices_name) ],
                     statements)
    IN  IF ~co.ok
        THEN [s |-> s, error |-> NotConcrete("d2_op_shape", operand, co), name |-> ""]
        ELSE IF ~cu.ok
        THEN [s |-> s, error |-> NotConcrete("d2_upd_shape", updates, cu), name |-> ""]
        ELSE CHOOSE r \in
                 { [s |-> f.s, error |-> NoError, name |-> f.local.indices_2d_name] :
                     f \in {frame} } : TRUE

\* nelem taking every shape for an empty tensor.
nelem_always_zero(concrete_shape) == 0

\* original_nelem / expected_nelem of lines 717-744, of a concrete shape.
nelem(concrete_shape) ==
    IF \E i \in DOMAIN concrete_shape : concrete_shape[i] = 0 THEN 0
    ELSE IF concrete_shape = <<>> THEN 1
    ELSE np_prod(concrete_shape)

RemoveAt(shp, i) == SubSeq(shp, 1, i - 1) \o SubSeq(shp, i + 1, Len(shp))

\* The axes the loop of lines 764-775 accepts: of size 1, and the updates
\* without them have the expected shape.
squeeze_axes(original, expected_shape) ==
    IF Len(original) = Len(expected_shape) + 1
    THEN {i \in 0..(Len(original) - 1) :
            /\ original[i + 1] = 1
            /\ _are_shapes_equal(RemoveAt(original, i + 1), expected_shape)}
    ELSE {}

\* squeeze_axis were the loop not left at the first axis accepted.
squeeze_axis_without_break(original, expected_shape) ==
    LET axes == squeeze_axes(original, expected_shape)
    IN  IF axes = {} THEN -1
        ELSE CHOOSE i \in axes : \A j \in axes : j <= i

\* Lines 756-775: squeeze_axis, -1 while is_squeeze is False.
squeeze_axis(original, expected_shape) ==
    LET axes == squeeze_axes(original, expected_shape)
    IN  IF axes = {} THEN -1
        ELSE CHOOSE i \in axes : \A j \in axes : i <= j

\* Lines 700-885: the updates of the default path are brought to the
\* expected shape.  [s, error, name, how]: name is
\* _final_updates_name_val_to_return.
default_updates(s, args, expected, final_indices_name, target) ==
    LET name == args.updates.name
        original == args.updates.shape
        dtype == args.updates.dtype
        co == _make_shape_concrete_for_prod(original, s)
        ce == _make_shape_concrete_for_prod(expected.shape, s)
        original_nelem == nelem(co.shape)
        expected_nelem == nelem(ce.shape)
        axis == squeeze_axis(original, expected.shape)
        squeezed == s_get_unique_name(s, name \o "_squeezed_default")
        c1 == s_get_constant_name(squeezed.s, Int64Array(<<axis>>))
        reshaped == s_get_unique_name(s, name \o "_reshaped_default")
        l  == reshape_target_list(expected.shape, PyInts(expected), reshaped.s,
                                  1, FALSE)
        c2 == s_get_constant_name(reshaped.s, Int64Array(l.vals))
        other(cause, st) ==
            [ s |-> st, name |-> "", how |-> "raise",
              error |-> [kind |-> "could_not_prepare_updates", cause |-> cause,
                         operand_shape |-> args.operand.shape,
                         indices_shape |-> target.shape,
                         dimension_numbers |-> args.dimension_numbers] ]
    IN  IF _are_shapes_equal(original, expected.shape)
        THEN [ s |-> _manually_ensure_shape_env_entry(s, name, expected.shape, dtype),
               error |-> NoError, name |-> name, how |-> "shape_ok" ]
        ELSE IF ~co.ok
        THEN other(NotConcrete("orig_updates_nelem_default", original, co), s)
        ELSE IF ~ce.ok
        THEN other(NotConcrete("exp_updates_nelem_default", expected.shape, ce), s)
        ELSE IF original_nelem = 0 /\ expected_nelem = 0
        THEN [ s |-> _manually_ensure_shape_env_entry(s, name, expected.shape, dtype),
               error |-> NoError, name |-> name, how |-> "empty_ok" ]
        ELSE IF original_nelem = expected_nelem
        THEN IF axis # -1
             THEN [ s |-> emit(c1.s, "Squeeze", <<name, c1.name>>, squeezed.name,
                               EmptyDict, expected.shape, dtype),
                    error |-> NoError, name |-> squeezed.name, how |-> "squeeze" ]
             ELSE IF ~l.ok
             THEN other(NotConcrete("reshape_target_updates_dim_def",
                                    expected.shape, ce), reshaped.s)
             ELSE [ s |-> emit(c2.s, "Reshape", <<name, c2.name>>, reshaped.name,
                               EmptyDict, expected.shape, dtype),
                    error |-> NoError, name |-> reshaped.name, how |-> "reshape" ]
        ELSE [ s |-> s, name |-> "", how |-> "raise",
               error |-> [kind |-> "element_count_mismatch",
                          original_shape |-> original,
                          original_nelem |-> original_nelem,
                          expected_shape |-> expected.shape,
                          expected_nelem |-> expected_nelem,
                          operand_shape |-> args.operand.shape,
                          indices_shape |-> target.shape,
                          dimension_numbers |-> args.dimension_numbers] ]

\* _prepare_scatter_inputs_for_onnx(s, operand_v, indices_v, updates_v,
\* dimension_numbers), args holding the four arguments.  Returns the
\* converter as the call leaves it, and either the three names returned
\* (status "ok") or the ValueError raised (status "error").
_prepare_scatter_inputs_for_onnx(s, args) ==
    LET index_depth_k == Len(args.dimension_numbers.scatter_dims_to_operand_dims)
        \* logger.warning of line 306, and of line 704 on the default path.
        indices_warnings ==
            IF complex_indices_shape(args.indices.shape, index_depth_k)
            THEN <<"Complex JAX indices_shape">> ELSE <<>>
        updates_warnings(expected) ==
            IF ~_are_shapes_equal(args.updates.shape, expected)
            THEN <<"Default path: JAX updates shape mismatches">> ELSE <<>>
        raise(st, error, target, warnings) ==
            [ s |-> st, status |-> "error", error |-> error, path |-> "none",
              how |-> "raise", operand |-> "", indices |-> "", updates |-> "",
              target |-> target.shape, expected |-> <<>>,
              warnings |-> warnings ]
        return(st, path, how, indices, updates, target, expected, warnings) ==
            [ s |-> st, status |-> "ok", error |-> NoError, path |-> path,
              how |-> how, operand |-> args.operand.name, indices |-> indices,
              updates |-> updates, target |-> target.shape,
              expected |-> expected, warnings |-> warnings ]
        \* Lines 451-926, a and b being the indices after the Cast and after
        \* the Reshape, s1 the converter once the updates are recorded.
        updates_and_return(a, b, s1, e) ==
            IF e.error # NoError THEN raise(s1, e.error, b.target, indices_warnings)
            ELSE IF use_depth2_for_batched_window_scatter(args)
            THEN CHOOSE r \in
                   { IF d.error # NoError
                     THEN raise(d.s, d.error, b.target, indices_warnings)
                     ELSE return(d.s, "depth2", "unchanged", d.name,
                                 args.updates.name, b.target, args.updates.shape,
                                 indices_warnings) :
                       d \in {depth2_indices(s1, args, a.name)} } : TRUE
            ELSE CHOOSE r \in
                   { IF u.error # NoError
                     THEN raise(u.s, u.error, b.target,
                                indices_warnings \o updates_warnings(e.expected.shape))
                     ELSE return(u.s, "default", u.how, b.name, u.name, b.target,
                                 e.expected.shape,
                                 indices_warnings \o updates_warnings(e.expected.shape)) :
                       u \in {default_updates(s1, args, e.expected, b.name,
                                              b.target)} } : TRUE
        \* Lines 400-926.
        updates(a, b) ==
            IF b.error # NoError THEN raise(b.s, b.error, b.target, indices_warnings)
            ELSE CHOOSE r \in
                   { updates_and_return(a, b, s1, e) :
                       s1 \in { _manually_ensure_shape_env_entry(
                                    b.s, args.updates.name, args.updates.shape,
                                    args.updates.dtype) },
                       e \in { default_expected_updates_shape(
                                   b.target, args.operand.shape) } } : TRUE
        \* Lines 269-926.
        indices_and_updates(a) ==
            CHOOSE r \in
              { updates(a, b) :
                  b \in { scatter_indices_to_target(a.s, a.name, args.indices.shape,
                                                    index_depth_k) } } : TRUE
    IN  CHOOSE r \in
          { indices_and_updates(a) : a \in {scatter_indices_to_int64(s, args)} } : TRUE

---------------------------------------------------------------------------
(* FlagSpec: graphs whose nodes use the names _build_graph treats apart    *)

RegisterValueInfoMetadata(name, shape, dtype, origin) ==
    /\ MayCall
    /\ Called("register_value_info_metadata", name,
              register_value_info_metadata(builder, name, shape, dtype, origin))

FlagNodes ==
    { Node("Dropout", <<"x">>, <<"y", "mask", "deterministic">>, <<>>),
      Node("ConvTranspose", <<"x">>, <<"conv_transpose_out">>, <<>>),
      Node("Op", <<"">>, <<"y">>, <<>>),
      Node("Op", <<>>, <<"x_deterministic">>, <<>>) }

FlagNext ==
    \/ AddInput("x", <<2>>, "float32")
    \/ \E name \in {"y", "conv_transpose_out"} : AddValueInfo(name, <<2>>, "float32")
    \/ \E node \in FlagNodes : AddNode(node)
    \/ \E is_subgraph \in BOOLEAN : BuildGraph("g", is_subgraph, FALSE)
    \/ Reset

FlagSpec == Init /\ [][FlagNext]_vars

---------------------------------------------------------------------------
(* DeclSpec: declarations repeated with another dtype                      *)

DeclNext ==
    \/ \E name \in {"x", "y"}, dtype \in {"float32", "int32"} :
          AddInput(name, <<2>>, dtype)
    \/ \E name \in {"x", "y"}, dtype \in {"float32", "int32"} :
          AddOutput(name, <<2>>, dtype)
    \/ AddNode(Node("Op", <<>>, <<"x">>, <<>>))
    \/ Reset

DeclSpec == Init /\ [][DeclNext]_vars

---------------------------------------------------------------------------
(* ShapeSpec: successive registrations of one tensor's shape               *)

Shapes ==
    { <<-1, 4>>, <<SymBase, 4>>, <<2, 4>>, <<NoneDim, 4>>, <<4>> }

ShapeNext ==
    \/ \E name \in {"t", "u"}, shape \in Shapes :
          AddValueInfo(name, shape, "float32")
    \/ \E name \in {"t", "u"}, shape \in Shapes :
          RegisterValueInfoMetadata(name, shape, "FLOAT", "")
    \/ Reset

ShapeSpec == Init /\ [][ShapeNext]_vars

---------------------------------------------------------------------------
(* ScatterSpec: one call of the scatter legalizer on a new builder         *)

Tensor(name, shape, dtype) == [name |-> name, shape |-> shape, dtype |-> dtype]

ScatterDimensionNumbers(uwd, iwd, sdod, obd) ==
    [ update_window_dims |-> uwd, inserted_window_dims |-> iwd,
      scatter_dims_to_operand_dims |-> sdod, operand_batching_dims |-> obd ]

OperandShapes ==
    { <<5, 3>>, <<4, 6>>, <<SymBase, 6>>, <<2, 0>>, <<2, 3, 3>>, <<4>> }

IndicesShapes ==
    { <<>>, <<1>>, <<3>>, <<2, 1>>, <<2, 2>>, <<SymBase, 1>>, <<SymBase>>,
      <<SymBase, 0>>, <<2, 3, 1>>, <<SymBase, 2, 1>>, <<2, 3, 0>>,
      <<SymBase, 3, 0>> }

UpdatesShapes ==
    { <<3>>, <<1, 3>>, <<2, 3>>, <<2, 1, 3>>, <<3, 5, 3>>, <<2>>, <<0>>,
      <<4, 6>>, <<4, 2>>, <<SymBase, 6>>, <<SymBase - 1, 6>>,
      <<1, SymBase, 6>>, <<3, 1>>, <<1, 1, 3>> }

DimensionNumbers ==
    { ScatterDimensionNumbers(<<1>>, <<0>>, <<0>>, <<>>),
      ScatterDimensionNumbers(<<0, 1>>, <<>>, <<1>>, <<>>),
      ScatterDimensionNumbers(<<0, 1>>, <<>>, <<0>>, <<>>),
      ScatterDimensionNumbers(<<0, 1>>, <<>>, <<>>, <<>>),
      ScatterDimensionNumbers(<<>>, <<0, 1>>, <<0, 1>>, <<>>),
      ScatterDimensionNumbers(<<>>, <<0, 1, 2>>, <<0, 1, 2>>, <<>>),
      ScatterDimensionNumbers(<<0, 1, 2>>, <<>>, <<2>>, <<>>),
      ScatterDimensionNumbers(<<0>>, <<>>, <<0>>, <<>>) }

\* What get_concrete_value_from_symbolic_dim answers for the two symbolic
\* dimension objects.
ConcreteValues ==
    { (SymBase :> NoneDim) @@ (SymBase - 1 :> NoneDim),
      (SymBase :> 4) @@ (SymBase - 1 :> NoneDim),
      (SymBase :> 4) @@ (SymBase - 1 :> 4) }

PrepareScatterInputs ==
    /\ call # NoCall
    /\ outcome = NoOutcome
    /\ \E r \in { _prepare_scatter_inputs_for_onnx(
                       Converter(builder, shape_env, call.concrete_values), call) } :
           /\ builder' = r.s.builder
           /\ shape_env' = r.s.shape_env
           /\ outcome' = [f \in DOMAIN r \ {"s"} |-> r[f]]
    /\ last' = [op |-> "_prepare_scatter_inputs_for_onnx", name |-> ""]
    /\ graph' = NotBuilt
    /\ UNCHANGED <<call, body_builder, model, registered>>

ScatterInit ==
    /\ builder = NewBuilder(FALSE, EmptyDict)
    /\ graph = NotBuilt
    /\ last = [op |-> "__init__", name |-> ""]
    /\ shape_env = EmptyDict
    /\ \E operand \in OperandShapes, indices \in IndicesShapes,
          dtype \in {"int32", "int64"}, updates \in UpdatesShapes,
          dn \in DimensionNumbers, values \in ConcreteValues :
          call = [ operand |-> Tensor("operand", operand, "float32"),
                   indices |-> Tensor("indices", indices, dtype),
                   updates |-> Tensor("updates", updates, "float32"),
                   dimension_numbers |-> dn,
                   concrete_values |-> values ]
    /\ outcome = NoOutcome
    /\ body_builder = NoBuilder
    /\ model = NoModel
    /\ registered = <<>>

ScatterNext == PrepareScatterInputs

ScatterSpec == ScatterInit /\ [][ScatterNext]_vars

---------------------------------------------------------------------------
(* Claims about the finalized graph and the builder's lifecycle (Spec)     *)

\* Names available to node k of graph g: its inputs, its initializers and the
\* outputs of the nodes before k.
AvailableIn(g, k) ==
    NamesOf(g.inputs) \cup NamesOf(g.initializer)
        \cup NodeOutputs(SubSeq(g.nodes, 1, k - 1))

HasNoDuplicateName(vis) ==
    \A i, j \in DOMAIN vis : vis[i].name = vis[j].name => i = j

\* C1: in every graph _build_graph returns (with its inputs kept, i.e.
\* empty_inputs false), each non-empty input name of each node is a graph
\* input, an initializer, or an output of an earlier node.
C1_TopologicalSoundness ==
    (graph.status = "ok" /\ ~graph.empty_inputs) =>
        \A k \in DOMAIN graph.graph.nodes :
            \A inp \in Range(graph.graph.nodes[k].input) :
                inp = "" \/ inp \in AvailableIn(graph.graph, k)

\* C2 as claimed: no graph _build_graph returns lists among its inputs a name
\* that one of its nodes produces, whether is_subgraph is false or true.
C2_NoProducedInput_AnyGraph ==
    graph.status = "ok" =>
        NamesOf(graph.graph.inputs) \cap NodeOutputs(graph.graph.nodes) = {}

\* C2 as amended: a graph _build_graph returns with is_subgraph false lists
\* among its inputs no name that one of its nodes produces.
C2_NoProducedInput_TopLevel ==
    (graph.status = "ok" /\ ~graph.is_subgraph) =>
        NamesOf(graph.graph.inputs) \cap NodeOutputs(graph.graph.nodes) = {}

\* x was declared with add_input (dtype_env records it), a node produces x,
\* and the top-level graph returned keeps the input y but not x.
C2_Witness ==
    /\ graph.status = "ok" /\ ~graph.is_subgraph /\ ~graph.empty_inputs
    /\ "x" \in DOMAIN builder.dtype_env
    /\ "x" \in NodeOutputs(graph.graph.nodes)
    /\ NamesOf(graph.graph.inputs) = {"y"}

\* C5: the value_info list of the builder, and of every graph returned,
\* holds each tensor name at most once, and the metadata map has a record
\* for each of them.
C5_SingleValueInfoRecord ==
    /\ HasNoDuplicateName(builder.value_info)
    /\ NamesOf(builder.value_info) \subseteq DOMAIN builder.value_info_metadata_with_origin
    /\ graph.status = "ok" => HasNoDuplicateName(graph.graph.value_info)

\* C7: after _build_graph has returned a graph, a call other than reset (or
\* another _build_graph) leaves nodes, inputs, outputs, initializers and
\* value_info unchanged.
C7_SealedAfterFinalize ==
    [][ (graph.status = "ok" /\ last'.op \notin {"reset", "_build_graph"}) =>
            /\ builder'.nodes = builder.nodes
            /\ builder'.inputs = builder.inputs
            /\ builder'.outputs = builder.outputs
            /\ builder'.initializers = builder.initializers
            /\ builder'.value_info = builder.value_info ]_vars

\* C8: reset() leaves the builder equal to a newly constructed one.
C8_ResetRestoresInitialState ==
    [][ last'.op = "reset" =>
            builder' = NewBuilder(builder.enable_double_precision,
                                  builder.converter_symbolic_shapes) ]_vars

---------------------------------------------------------------------------
(* Claims about missing value-info (FlagSpec)                              *)

KnownNames(b) ==
    NamesOf(b.inputs) \cup NamesOf(b.outputs) \cup NamesOf(b.value_info)
        \cup NamesOf(b.initializers)

\* Names the nodes of b use that none of b's four lists holds.
Unrecorded(b) == (NodeInputs(b.nodes) \cup NodeOutputs(b.nodes)) \ KnownNames(b)

IsSortedSeq(q) == \A i, j \in DOMAIN q : i < j => StrLess(q[i], q[j])

---------------------------------------------------------------------------
(* Claims about declarations (DeclSpec)                                    *)

\* C4: inputs and outputs hold each name at most once, and an add_input
\* (add_output) of a name already in inputs (outputs) leaves inputs, outputs
\* and dtype_env unchanged.
C4_IdempotentDeclaration ==
    [][ /\ HasNoDuplicateName(builder'.inputs)
        /\ HasNoDuplicateName(builder'.outputs)
        /\ ( \/ last'.op = "add_input" /\ last'.name \in NamesOf(builder.inputs)
             \/ last'.op = "add_output" /\ last'.name \in NamesOf(builder.outputs) )
           => /\ builder'.inputs = builder.inputs
              /\ builder'.outputs = builder.outputs
              /\ builder'.dtype_env = builder.dtype_env ]_vars

\* x was declared an input before y, and the latest call is add_input(x):
\* a second declaration of x.
C4_Witness ==
    /\ last = [op |-> "add_input", name |-> "x"]
    /\ Len(builder.inputs) = 2
    /\ builder.inputs[1].name = "x"
    /\ builder.inputs[2].name = "y"

---------------------------------------------------------------------------
(* Claims about shape registration (ShapeSpec)                             *)

\* new has an unknown dimension where old, of the same rank, has a known one.
LessSpecific(old, new) ==
    /\ Len(old) = Len(new)
    /\ \E i \in DOMAIN old : ~_is_unknown_dim(old[i]) /\ _is_unknown_dim(new[i])

\* C6: no registration replaces the stored shape of a name by a less
\* specific shape of the same rank.
C6_ShapeRefinementMonotone ==
    [][ \A name \in DOMAIN builder.value_info_metadata :
            name \in DOMAIN builder'.value_info_metadata =>
                ~LessSpecific(builder.value_info_metadata[name].shape,
                              builder'.value_info_metadata[name].shape) ]_vars

---------------------------------------------------------------------------
(* Claims about the scatter legalizer (ScatterSpec)                        *)

\* The shape the converter's shape_env holds for a name.
Registered(name) == shape_env[name].shape

IndexDepthK == Len(call.dimension_numbers.scatter_dims_to_operand_dims)

\* operand_shape[K:]
OperandWindow ==
    SubSeq(call.operand.shape, IndexDepthK + 1, Len(call.operand.shape))

\* (N, K) for the indices and (N,) + operand_shape[K:] for the updates.
CanonicalForm(indices_shape, updates_shape) ==
    /\ Len(indices_shape) = 2
    /\ indices_shape[2] = IndexDepthK
    /\ updates_shape = <<indices_shape[1]>> \o OperandWindow

Resolvable(shp) ==
    \A i \in DOMAIN shp : IsInt(shp[i]) \/ call.concrete_values[shp[i]] # NoneDim

Resolved(shp) ==
    [i \in DOMAIN shp |->
        IF IsInt(shp[i]) THEN shp[i] ELSE call.concrete_values[shp[i]]]

RECURSIVE Product(_)
Product(dims) == IF dims = <<>> THEN 1 ELSE dims[1] * Product(Tail(dims))

\* The element count of a shape: 1 for the empty shape, 0 with a zero
\* dimension, the product of the dimensions otherwise.
ElementCount(shp) ==
    IF \E i \in DOMAIN shp : Resolved(shp)[i] = 0 THEN 0
    ELSE Product(Resolved(shp))

\* The expected updates shape of the default path: the leading dimensions of
\* the final indices shape, then operand_shape[K:].
ExpectedUpdatesShape ==
    SubSeq(outcome.target, 1, Len(outcome.target) - 1) \o OperandWindow

\* The call reached the reconciliation of the updates on the default path
\* with updates that differ from the expected shape.
ReconciledOnDefaultPath ==
    /\ outcome # NoOutcome
    /\ ~use_depth2_for_batched_window_scatter(call)
    /\ IndexDepthK <= Len(call.operand.shape)
    /\ ~_are_shapes_equal(call.updates.shape, ExpectedUpdatesShape)

\* C10: on the default path with updates that differ from the expected
\* shape, the call succeeds only if the element counts of the two shapes are
\* equal; if the counts differ it raises the error that carries both shapes
\* and the dimension numbers; and the registered shape of the updates a
\* successful default-path call returns has the element count of the
\* original updates.
C10_ElementCountInvariant ==
    /\ (ReconciledOnDefaultPath /\ outcome.status = "ok") =>
           /\ outcome.path = "default"
           /\ Resolvable(call.updates.shape)
           /\ Resolvable(ExpectedUpdatesShape)
           /\ ElementCount(call.updates.shape) = ElementCount(ExpectedUpdatesShape)
    /\ ( /\ ReconciledOnDefaultPath
         /\ Resolvable(call.updates.shape)
         /\ Resolvable(ExpectedUpdatesShape)
         /\ ElementCount(call.updates.shape) # ElementCount(ExpectedUpdatesShape) ) =>
           /\ outcome.status = "error"
           /\ outcome.error.kind = "element_count_mismatch"
           /\ outcome.error.original_shape = call.updates.shape
           /\ outcome.error.expected_shape = ExpectedUpdatesShape
           /\ outcome.error.dimension_numbers = call.dimension_numbers
    /\ (outcome.status = "ok" /\ outcome.path = "default") =>
           \/ Registered(outcome.updates) = call.updates.shape
           \/ /\ Resolvable(call.updates.shape)
              /\ Resolvable(Registered(outcome.updates))
              /\ ElementCount(Registered(outcome.updates)) =
                    ElementCount(call.updates.shape)

\* Updates (2, 1, 3) against the expected (2, 3): six elements either way,
\* and the call returned the output of a Squeeze, registered as (2, 3).
C10_Witness ==
    /\ outcome.status = "ok"
    /\ outcome.how = "squeeze"
    /\ call.updates.shape = <<2, 1, 3>>
    /\ outcome.updates # call.updates.name
    /\ Registered(outcome.updates) = <<2, 3>>

---------------------------------------------------------------------------
(* What the emitted nodes compute: the ONNX operators the legalizer uses,  *)
(* on integer tensors [ok, shape, data], data in row-major order.          *)

OnnxTensor(shape, data) == [ok |-> TRUE, shape |-> shape, data |-> data]

\* The result of a node the operator's definition rejects.
InvalidTensor == [ok |-> FALSE, shape |-> <<>>, data |-> <<>>]

RECURSIVE FlatIndex(_, _)
FlatIndex(idx, shape) ==
    IF idx = <<>> THEN 0
    ELSE idx[1] * Product(Tail(shape)) + FlatIndex(Tail(idx), Tail(shape))

MultiIndex(i, shape) ==
    [k \in DOMAIN shape |->
        (i \div Product(SubSeq(shape, k + 1, Len(shape)))) % shape[k]]

At(x, idx) == x.data[FlatIndex(idx, x.shape) + 1]

PadLeft(shape, r) ==
    [k \in 1..r |-> IF k <= r - Len(shape) THEN 1 ELSE shape[k - (r - Len(shape))]]

\* Multidirectional (numpy) broadcasting of two shapes: [ok, shape].
BroadcastShape(a, b) ==
    LET r == IF Len(a) > Len(b) THEN Len(a) ELSE Len(b)
        pa == PadLeft(a, r)
        pb == PadLeft(b, r)
    IN  [ ok |-> \A k \in 1..r : pa[k] = pb[k] \/ pa[k] = 1 \/ pb[k] = 1,
          shape |-> [k \in 1..r |-> IF pa[k] = 1 THEN pb[k] ELSE pa[k]] ]

\* The entry of x that index idx of a broadcast shape reads.
BroadcastAt(x, idx) ==
    LET off == Len(idx) - Len(x.shape)
    IN  At(x, [j \in DOMAIN x.shape |-> IF x.shape[j] = 1 THEN 0 ELSE idx[off + j]])

NormalizedAxes(axes, r) == {IF a < 0 THEN a + r ELSE a : a \in Range(axes)}

onnx_Cast(x) == x

onnx_Reshape(x, shape) ==
    LET known == Product(SelectSeq(shape.data, LAMBDA d : d # -1))
        target == [k \in DOMAIN shape.data |->
                     IF shape.data[k] = -1 /\ known # 0
                     THEN Len(x.data) \div known ELSE shape.data[k]]
    IN  IF /\ \A k \in DOMAIN target : target[k] >= 0
           /\ Product(target) = Len(x.data)
        THEN OnnxTensor(target, x.data)
        ELSE InvalidTensor

\* axes are accepted in [-r, r-1], r the rank of x, and name dimensions of
\* size 1.
onnx_Squeeze(x, axes) ==
    LET r == Len(x.shape)
        drop == NormalizedAxes(axes.data, r)
        keep == SelectSeq([k \in 1..r |-> k], LAMBDA k : (k - 1) \notin drop)
    IN  IF /\ \A a \in Range(axes.data) : -r <= a /\ a <= r - 1
           /\ \A a \in drop : x.shape[a + 1] = 1
        THEN OnnxTensor([k \in DOMAIN keep |-> x.shape[keep[k]]], x.data)
        ELSE InvalidTensor

\* axes are accepted in [-r, r-1], r the rank of the output.
onnx_Unsqueeze(x, axes) ==
    LET r == Len(x.shape) + Len(axes.data)
        new == NormalizedAxes(axes.data, r)
        old(k) == Cardinality({j \in 1..k : (j - 1) \notin new})
    IN  IF /\ \A a \in Range(axes.data) : -r <= a /\ a <= r - 1
           /\ Cardinality(new) = Len(axes.data)
        THEN OnnxTensor([k \in 1..r |-> IF (k - 1) \in new THEN 1
                                        ELSE x.shape[old(k)]], x.data)
        ELSE InvalidTensor

onnx_Range(start, limit, delta) ==
    LET span == limit.data[1] - start.data[1]
        n == IF delta.data[1] > 0 /\ span > 0
             THEN (span + delta.data[1] - 1) \div delta.data[1] ELSE 0
    IN  IF start.shape = <<>> /\ limit.shape = <<>> /\ delta.shape = <<>>
           /\ delta.data[1] > 0
        THEN OnnxTensor(<<n>>, [i \in 1..n |-> start.data[1] + (i - 1) * delta.data[1]])
        ELSE InvalidTensor

onnx_Expand(x, shape) ==
    LET bs == BroadcastShape(x.shape, shape.data)
    IN  IF bs.ok
        THEN OnnxTensor(bs.shape,
                        [i \in 1..Product(bs.shape) |->
                            BroadcastAt(x, MultiIndex(i - 1, bs.shape))])
        ELSE InvalidTensor

onnx_Add(a, b) ==
    LET bs == BroadcastShape(a.shape, b.shape)
    IN  IF bs.ok
        THEN OnnxTensor(bs.shape,
                        [i \in 1..Product(bs.shape) |->
                            BroadcastAt(a, MultiIndex(i - 1, bs.shape))
                                + BroadcastAt(b, MultiIndex(i - 1, bs.shape))])
        ELSE InvalidTensor

onnx_Concat(a, b, axis) ==
    LET r == Len(a.shape)
        ax == (IF axis < 0 THEN axis + r ELSE axis) + 1
        shape == [k \in 1..r |-> IF k = ax THEN a.shape[k] + b.shape[k] ELSE a.shape[k]]
        entry(idx) ==
            IF idx[ax] < a.shape[ax] THEN At(a, idx)
            ELSE At(b, [k \in 1..r |-> IF k = ax THEN idx[k] - a.shape[ax]
                                       ELSE idx[k]])
    IN  IF /\ Len(b.shape) = r
           /\ -r <= axis /\ axis <= r - 1
           /\ \A k \in 1..r : k # ax => a.shape[k] = b.shape[k]
        THEN OnnxTensor(shape,
                        [i \in 1..Product(shape) |-> entry(MultiIndex(i - 1, shape))])
        ELSE InvalidTensor

\* The tensor an initializer holds.
InitializerTensor(init) == OnnxTensor(init.dims, init.vals)

\* The output of one node, env giving the tensors computed so far.
NodeValue(node, env) ==
    LET n == Len(node.input)
        in == [j \in 1..n |-> IF node.input[j] \in DOMAIN env THEN env[node.input[j]]
                              ELSE InvalidTensor]
    IN  IF \E j \in 1..n : ~in[j].ok THEN InvalidTensor
        ELSE IF node.op_type = "Cast" /\ n = 1 THEN onnx_Cast(in[1])
        ELSE IF node.op_type = "Reshape" /\ n = 2 THEN onnx_Reshape(in[1], in[2])
        ELSE IF node.op_type = "Squeeze" /\ n = 2 THEN onnx_Squeeze(in[1], in[2])
        ELSE IF node.op_type = "Unsqueeze" /\ n = 2 THEN onnx_Unsqueeze(in[1], in[2])
        ELSE IF node.op_type = "Range" /\ n = 3 THEN onnx_Range(in[1], in[2], in[3])
        ELSE IF node.op_type = "Expand" /\ n = 2 THEN onnx_Expand(in[1], in[2])
        ELSE IF node.op_type = "Add" /\ n = 2 THEN onnx_Add(in[1], in[2])
        ELSE IF node.op_type = "Concat" /\ n = 2
        THEN onnx_Concat(in[1], in[2], node.attribute.axis)
        ELSE InvalidTensor

\* The nodes run in list order on env.
RECURSIVE RunNodes(_, _)
RunNodes(nodes, env) ==
    CHOOSE r \in
        { IF ns = <<>> THEN e
          ELSE RunNodes(Tail(ns), Put(e, Head(ns).output[1], NodeValue(Head(ns), e))) :
            ns \in {nodes}, e \in {env} } : TRUE

\* The tensors of the graph the builder b holds, feeds giving the graph's
\* inputs.
GraphValues(b, feeds) ==
    RunNodes(b.nodes,
             [name \in NamesOf(b.initializers) \cup DOMAIN feeds |->
                 IF name \in DOMAIN feeds THEN feeds[name]
                 ELSE InitializerTensor(
                          CHOOSE init \in Range(b.initializers) : init.name = name)])

---------------------------------------------------------------------------
(* Claims about the batched-window strategy (ScatterSpec)                  *)

\* The start indices fed to the graph.
Starts == {0, 2}

\* The indices tensor of the call, holding the one start index.
IndicesFeed(start) ==
    (call.indices.name :> OnnxTensor(call.indices.shape, <<start>>))

\* (B, L, 2) with [b, l, :] = (b, start + l).
WindowIndices(B, L, start) ==
    OnnxTensor(<<B, L, 2>>,
               [i \in 1..(B * L * 2) |->
                   IF (i - 1) % 2 = 0 THEN (i - 1) \div (2 * L)
                   ELSE start + (((i - 1) \div 2) % L)])

FastPathB == Resolved(call.operand.shape)[1]

FastPathL ==
    Resolved(call.updates.shape)[
        call.dimension_numbers.scatter_dims_to_operand_dims[1] + 1]

\* C11: after a call that took the batched-window strategy, the emitted
\* nodes compute, for every start index, the indices tensor of shape
\* (B, L, 2) with [b, l, :] = (b, start + l), and the updates are returned
\* unchanged.
C11_FastPathExact ==
    (outcome.status = "ok" /\ outcome.path = "depth2") =>
        /\ outcome.updates = call.updates.name
        /\ \A start \in Starts :
              GraphValues(builder, IndicesFeed(start))[outcome.indices]
                  = WindowIndices(FastPathB, FastPathL, start)

\* The same statement for calls whose indices have shape (1,): it holds
\* there, so the violations of C11_FastPathExact are the calls with scalar
\* indices, whose Squeeze names axis 0 of a rank-0 tensor.
FastPathExactOnOneElementIndices ==
    (call.indices.shape = <<1>>) => C11_FastPathExact

\* With scalar indices the Squeeze output is rejected and the result with
\* it, while both Range outputs are computed.
FastPathInvalidOnScalarIndices ==
    (outcome.status = "ok" /\ outcome.path = "depth2" /\ call.indices.shape = <<>>) =>
        \A start \in Starts :
            LET v == GraphValues(builder, IndicesFeed(start))
            IN  /\ ~v[outcome.indices].ok
                /\ v["arange_b_d2_0"].ok
                /\ v["arange_l_d2_0"].ok

---------------------------------------------------------------------------
(* Claims about the target shape of the indices (ScatterSpec)              *)

\* current_indices_name once the indices are int64.
Int64IndicesName ==
    IF call.indices.dtype = "int64" THEN call.indices.name
    ELSE call.indices.name \o "_int64_0"

\* The Reshape nodes applied to the int64 indices.
IndicesReshapes ==
    { k \in DOMAIN builder.nodes :
        /\ builder.nodes[k].op_type = "Reshape"
        /\ builder.nodes[k].input[1] = Int64IndicesName }

\* (product of the batch dimensions, K), or (-1, K) when one of them has no
\* concrete value.
BatchTarget(batch, K) ==
    IF Resolvable(batch) THEN <<Product(Resolved(batch)), K>> ELSE <<-1, K>>

LeadingDims(shp) == SubSeq(shp, 1, Len(shp) - 1)

\* The enumerated cases, the batch case being taken for the K of batch_K.
TargetCases(batch_K) ==
    LET current == call.indices.shape
        n == Len(current)
        K == IndexDepthK
    IN  /\ n = 0 => outcome.target = <<1, K>>
        /\ (n = 1 /\ K > 0 /\ current[1] = K) => outcome.target = <<1, K>>
        /\ (n >= 2 /\ K \in batch_K /\ current[n] = K) =>
               outcome.target = BatchTarget(LeadingDims(current), K)
        /\ (n = 1 /\ K = 0) => outcome.target = <<current[1], 0>>
        /\ (n = 2 /\ K \notin batch_K /\ current[2] = K) => outcome.target = current

\* A Reshape of the indices is emitted exactly when the target differs from
\* the current shape; otherwise the default path returns the existing name.
ReshapeWhenTargetDiffers ==
    /\ Cardinality(IndicesReshapes) = (IF outcome.target # call.indices.shape THEN 1 ELSE 0)
    /\ (outcome.status = "ok" /\ outcome.path = "default"
            /\ outcome.target = call.indices.shape) =>
           outcome.indices = Int64IndicesName

\* C19 as stated: the enumerated cases read in order, the batch case for
\* every K, and a Reshape exactly when the target differs.
C19_TargetIndicesShape ==
    (outcome.status # "none") => (TargetCases(0..3) /\ ReshapeWhenTargetDiffers)

\* C19: after a call of the legalizer the target indices shape is (1, K)
\* for an empty shape and for rank-1 (K,) with K > 0; (product of the batch
\* dimensions, K), or (-1, K) when a batch dimension has no concrete value,
\* for rank >= 2 with trailing dimension K > 0; (dim0, 0) for rank 1 with
\* K = 0; the current shape for rank-2 (*, 0) with K = 0.  A Reshape of the
\* indices is emitted exactly when the target differs from the current
\* shape, and otherwise the existing name is returned.
C19_TargetIndicesShapeBatchForPositiveK ==
    (outcome.status # "none") => (TargetCases(1..3) /\ ReshapeWhenTargetDiffers)

\* Indices (s, 2, 1) with s = 4 and K = 1: the target is (8, 1) and the
\* indices returned are the output of the one Reshape.
C19_Witness ==
    /\ outcome.status = "ok"
    /\ call.indices.shape = <<SymBase, 2, 1>>
    /\ IndexDepthK = 1
    /\ outcome.target = <<8, 1>>
    /\ \E k \in IndicesReshapes : outcome.indices = builder.nodes[k].output[1]

\* The indices shape matches none of the enumerated cases, the batch case
\* being taken for the K of batch_K.
Unanticipated(batch_K) ==
    LET current == call.indices.shape
        n == Len(current)
        K == IndexDepthK
    IN  /\ n # 0
        /\ ~(n = 1 /\ K > 0 /\ current[1] = K)
        /\ ~(n >= 2 /\ K \in batch_K /\ current[n] = K)
        /\ ~(n = 1 /\ K = 0)
        /\ ~(n = 2 /\ current[2] = K)

\* The target (N, K) of the generic fallback, N being otherwise when the
\* trailing dimension is not K.
GenericTarget(otherwise) ==
    LET current == call.indices.shape
        n == Len(current)
    IN  IF n >= 2 /\ current[n] = IndexDepthK
        THEN BatchTarget(LeadingDims(current), IndexDepthK)
        ELSE <<otherwise, IndexDepthK>>

DiagnosticLogged ==
    \E i \in DOMAIN outcome.warnings : outcome.warnings[i] = "Complex JAX indices_shape"

\* C20 as stated: N = 1 when the trailing dimension is not K.
C20_GenericFallback ==
    (outcome.status # "none" /\ Unanticipated(0..3)) =>
        (outcome.target = GenericTarget(1) /\ DiagnosticLogged)

\* C20: for an indices shape that matches none of the enumerated cases the
\* target is (N, K), N being the product of the leading dimensions (-1 when
\* one has no concrete value) when the trailing dimension equals K and -1
\* otherwise, and the diagnostic is logged.
C20_GenericFallbackInfersN ==
    (outcome.status # "none" /\ Unanticipated(1..3)) =>
        (outcome.target = GenericTarget(-1) /\ DiagnosticLogged)

\* Rank-1 indices (3,) with K = 1: target (-1, 1), diagnostic logged.
C20_Witness ==
    /\ outcome.status # "none"
    /\ call.indices.shape = <<3>>
    /\ IndexDepthK = 1
    /\ outcome.target = <<-1, 1>>
    /\ DiagnosticLogged

\* Indices (2, 3, 0) with K = 0 take the generic fallback with N = 6.
GenericFallbackWithProduct ==
    /\ outcome.status # "none"
    /\ call.indices.shape = <<2, 3, 0>>
    /\ IndexDepthK = 0
    /\ outcome.target = <<6, 0>>
    /\ DiagnosticLogged

---------------------------------------------------------------------------
(* ConstSpec: constants of every kind, with and without double precision   *)

MaxConstants == 2

PyScalar(kind, v) == [kind |-> kind, dtype |-> "", shape |-> <<>>, vals |-> <<v>>]

Literal(val) == [kind |-> "Literal", val |-> val]

NdArray(dtype, vals) ==
    [kind |-> "ndarray", dtype |-> dtype, shape |-> <<Len(vals)>>, vals |-> vals]

\* 0, -1, 2^31 - 1, 2^31, -2^31, -2^31 - 1, 2^63 - 1, 2^63, -2^63, -2^63 - 1
PythonInts ==
    { PyInt(0, 0, 0), PyInt(-1, 2147483647, 2147483647),
      PyInt(0, 0, 2147483647), PyInt(0, 1, 0),
      PyInt(-1, 2147483647, 0), PyInt(-1, 2147483646, 2147483647),
      PyInt(1, 2147483647, 2147483647), PyInt(2, 0, 0),
      PyInt(-2, 0, 0), PyInt(-3, 2147483647, 2147483647) }

ConstantValues ==
    {PyScalar("int", v) : v \in PythonInts}
        \cup {PyScalar("float", 1), PyScalar("bool", 1), PyScalar("bool", 0)}
        \cup {Literal(PyScalar("int", PyInt(0, 1, 0))), Literal(PyScalar("bool", 1))}
        \cup {NdArray(dtype, <<1>>) : dtype \in {"int32", "int64", "float64", "bool"}}

GetConstantNameOf(val) ==
    /\ Len(builder.initializers) < MaxConstants
    /\ \E r \in {get_constant_name(builder, val)} :
          /\ builder' = r.b
          /\ last' = [op |-> "get_constant_name", name |-> r.name]
          /\ outcome' = [ status |-> IF r.error = "" THEN "ok" ELSE "error",
                          error |-> r.error, name |-> r.name ]
    /\ call' = [op |-> "get_constant_name", val |-> val]
    /\ graph' = NotBuilt
    /\ UNCHANGED <<shape_env, body_builder, model, registered>>

ConstInit ==
    /\ \E enable_double_precision \in BOOLEAN :
          builder = NewBuilder(enable_double_precision, EmptyDict)
    /\ graph = NotBuilt
    /\ last = [op |-> "__init__", name |-> ""]
    /\ shape_env = EmptyDict
    /\ call = NoCall
    /\ outcome = NoOutcome
    /\ body_builder = NoBuilder
    /\ model = NoModel
    /\ registered = <<>>

ConstNext == \E val \in ConstantValues : GetConstantNameOf(val)

ConstSpec == ConstInit /\ [][ConstNext]_vars

---------------------------------------------------------------------------
(* Claims about the dtype of constants (ConstSpec)                         *)

\* x <= y for Python ints.
PyLeq(x, y) ==
    \/ x.a < y.a
    \/ x.a = y.a /\ x.b < y.b
    \/ x.a = y.a /\ x.b = y.b /\ x.c <= y.c

Int32Min == PyInt(-1, 2147483647, 0)

Int32Max == PyInt(0, 0, 2147483647)

Int64Min == PyInt(-2, 0, 0)

Int64Max == PyInt(1, 2147483647, 2147483647)

\* The value get_constant_name was called with, a Literal unwrapped.
ConstantArgument == IF call.val.kind = "Literal" THEN call.val.val ELSE call.val

\* The initializer the call appended.
NewConstant == builder.initializers[Len(builder.initializers)]

\* The call appended one initializer of data type dtype under the returned
\* name and recorded the same dtype as its metadata.
ConstantOfType(dtype) ==
    /\ outcome.status = "ok"
    /\ NewConstant.name = outcome.name
    /\ NewConstant.data_type = dtype
    /\ builder.value_info_metadata[outcome.name].dtype = dtype

\* The dtype rule for the ints of the set ints, and for floats and bools.
ConstantDtypeRule(ints) ==
    LET val == ConstantArgument
        v == val.vals[1]
    IN  /\ (val.kind = "int" /\ v \in ints) =>
              IF ~builder.enable_double_precision
                    /\ PyLeq(Int32Min, v) /\ PyLeq(v, Int32Max)
              THEN ConstantOfType("INT32") ELSE ConstantOfType("INT64")
        /\ val.kind = "float" =>
              IF builder.enable_double_precision
              THEN ConstantOfType("DOUBLE") ELSE ConstantOfType("FLOAT")
        /\ val.kind = "bool" => ConstantOfType("BOOL")

\* C13 as stated: every Python int outside the INT32 case becomes an INT64
\* constant.
C13_ConstantDtype ==
    (call # NoCall /\ call.op = "get_constant_name") => ConstantDtypeRule(PythonInts)

\* C13: get_constant_name makes of a Python int v with
\* -2^63 <= v <= 2^63 - 1 an INT32 constant exactly when double precision is
\* disabled and -2^31 <= v <= 2^31 - 1 and an INT64 constant otherwise, and
\* raises OverflowError, adding nothing, for an int outside that range; of a
\* Python float a FLOAT constant when double precision is disabled and a
\* DOUBLE one when it is enabled; of a bool a BOOL constant.
C13_ConstantDtypeWithinInt64 ==
    (call # NoCall /\ call.op = "get_constant_name") =>
        /\ ConstantDtypeRule({v \in PythonInts : PyLeq(Int64Min, v) /\ PyLeq(v, Int64Max)})
        /\ (ConstantArgument.kind = "int"
                /\ ~(PyLeq(Int64Min, ConstantArgument.vals[1])
                        /\ PyLeq(ConstantArgument.vals[1], Int64Max))) =>
               (outcome.status = "error" /\ outcome.error = "OverflowError")

\* 2^31 with double precision disabled became an INT64 constant, after the
\* bool True became a BOOL one.
C13_Witness ==
    /\ call # NoCall /\ call.op = "get_constant_name"
    /\ ~builder.enable_double_precision
    /\ call.val = PyScalar("int", PyInt(0, 1, 0))
    /\ ConstantOfType("INT64")
    /\ Len(builder.initializers) = 2
    /\ builder.initializers[1].data_type = "BOOL"

---------------------------------------------------------------------------
(* PruneSpec: top-level graphs with control-flow nodes and constants       *)

PruneNodes ==
    { Node("Op", <<"x">>, <<"y">>, <<>>),
      Node("Loop", <<>>, <<"y">>, <<"x">>),
      WithNestedSubgraph(Node("Loop", <<>>, <<"y">>, <<>>), <<"x">>),
      Node("Op", <<"const_0">>, <<"y">>, <<>>),
      Node("Loop", <<>>, <<"y">>, <<"const_0">>),
      Node("Op", <<>>, <<"x">>, <<>>) }

PruneNext ==
    \/ \E name \in {"x", "const_0"} : AddInput(name, <<2>>, "float32")
    \/ \E name \in {"x", "y"} : AddOutput(name, <<2>>, "float32")
    \/ \E node \in PruneNodes : AddNode(node)
    \/ GetConstantName(Int64Array(<<0>>))
    \/ BuildGraph("g", FALSE, FALSE)

PruneSpec == Init /\ [][PruneNext]_vars

---------------------------------------------------------------------------
(* Claims about input pruning (PruneSpec)                                  *)

\* name is an input of a node of ns or of a node inside a subgraph of one,
\* at any depth.
ConsumedAtAnyDepth(ns, name) ==
    \E i \in DOMAIN ns :
        name \in Range(ns[i].input) \cup Range(ns[i].g_input)
                    \cup Range(ns[i].g_deeper_input)

\* The rule of the claim for the builder b about to be finalized.
ShouldRemain(b, name) ==
    /\ ConsumedAtAnyDepth(b.nodes, name)
    /\ name \notin NodeOutputs(b.nodes)
    /\ name \notin NamesOf(b.initializers)

\* This step is a successful top-level finalize.
TopLevelFinalize ==
    /\ last'.op = "_build_graph"
    /\ graph'.status = "ok"
    /\ ~graph'.is_subgraph

\* C15: a successful top-level finalize keeps a declared input exactly when
\* it is consumed by some node, at any nesting depth, is produced by no node
\* and is not the name of an initializer.
C15_InputPruningRule ==
    [][ TopLevelFinalize =>
            \A name \in NamesOf(builder.inputs) :
                (name \in NamesOf(graph'.graph.inputs)) <=> ShouldRemain(builder, name)
      ]_vars

\* An input consumed only two subgraph levels down is dropped.
DroppedThoughConsumedDeeper ==
    /\ graph.status = "ok"
    /\ Len(builder.nodes) = 1
    /\ builder.nodes[1].g_deeper_input = <<"x">>
    /\ "x" \in DOMAIN builder.dtype_env
    /\ "x" \notin NamesOf(graph.graph.inputs)

\* An input that is also a graph output stays without being consumed.
KeptAsOutputThoughUnconsumed ==
    /\ graph.status = "ok"
    /\ "x" \in NamesOf(graph.graph.inputs)
    /\ "x" \in NamesOf(graph.graph.outputs)
    /\ ~ConsumedAtAnyDepth(builder.nodes, "x")

\* An input named as an initializer stays, the initializer-name index being
\* the one of an earlier finalize.
KeptThoughInitializer ==
    /\ graph.status = "ok"
    /\ "const_0" \in NamesOf(graph.graph.inputs)
    /\ "const_0" \in NamesOf(graph.graph.initializer)

---------------------------------------------------------------------------
(* Claims about the deterministic flag (FlagSpec)                          *)

\* name is used by a node of the builder and has no value-info.
ReferencedWithoutValueInfo(name) ==
    /\ name \in NodeInputs(builder.nodes) \cup NodeOutputs(builder.nodes)
    /\ name \notin NamesOf(builder.inputs) \cup NamesOf(builder.outputs)
                     \cup NamesOf(builder.value_info)
                     \cup NamesOf(builder.initializers)

\* This step is a finalize that reached the value-info check.
FinalizeChecksValueInfo ==
    /\ last'.op = "_build_graph"
    /\ graph'.status \in {"ok", "missing_value_info"}

\* The finalize of this step did not fail for name and left it a scalar
\* BOOL record.
FlagRegistered(name) ==
    /\ \A i \in DOMAIN graph'.missing : graph'.missing[i] # name
    /\ name \in DOMAIN builder'.value_info_metadata
    /\ builder'.value_info_metadata[name] = [shape |-> <<>>, dtype |-> "BOOL"]
    /\ \E i \in DOMAIN builder'.value_info :
          builder'.value_info[i] = [name |-> name, shape |-> <<>>, elem_type |-> "BOOL"]

\* C18: when finalize finds a node-referenced name without value-info that
\* is "deterministic" or ends with "_deterministic", it does not fail for
\* that name, and afterwards the name's record is shape (), dtype BOOL,
\* origin "auto-registered deterministic flag".
C18_DeterministicFlagRecord ==
    [][ FinalizeChecksValueInfo =>
            \A name \in {"deterministic", "x_deterministic"} :
                ReferencedWithoutValueInfo(name) =>
                    /\ FlagRegistered(name)
                    /\ builder'.value_info_metadata_with_origin[name] =
                          [ shape |-> <<>>, dtype |-> "BOOL",
                            origin |-> "auto-registered deterministic flag" ]
      ]_vars

\* What the code does: the flag is registered as a scalar BOOL, with the
\* origin tag "traced".
DeterministicFlagRecordedAsTraced ==
    [][ FinalizeChecksValueInfo =>
            \A name \in {"deterministic", "x_deterministic"} :
                ReferencedWithoutValueInfo(name) =>
                    /\ FlagRegistered(name)
                    /\ builder'.value_info_metadata_with_origin[name] =
                          [shape |-> <<>>, dtype |-> "BOOL", origin |-> "traced"]
      ]_vars

\* A finalize has registered the flag "deterministic".
DeterministicFlagAutoRegistered ==
    /\ last.op = "_build_graph"
    /\ graph.status \in {"ok", "missing_value_info"}
    /\ "deterministic" \in NodeOutputs(builder.nodes)
    /\ "deterministic" \in DOMAIN builder.value_info_metadata_with_origin
    /\ builder.value_info_metadata_with_origin["deterministic"].origin = "traced"


---------------------------------------------------------------------------
(* FuncSpec: a parent builder wrapping sub-builders as functions           *)

MaxRegistrations == 2

FreshBuilder == NewBuilder(FALSE, EmptyDict)

\* x -> Op -> y
BodyPlain ==
    add_output(
        add_node(add_input(FreshBuilder, "x", <<2>>, "FLOAT"),
                 Node("Op", <<"x">>, <<"y">>, <<>>)),
        "y", <<2>>, "FLOAT")

\* BodyPlain with a second declared input no node consumes.
BodyUnconsumed ==
    add_output(
        add_node(add_input(add_input(FreshBuilder, "x", <<2>>, "FLOAT"),
                           "z", <<2>>, "FLOAT"),
                 Node("Op", <<"x">>, <<"y">>, <<>>)),
        "y", <<2>>, "FLOAT")

\* A body whose node reads the flag "deterministic", declared nowhere.
BodyFlag ==
    add_output(
        add_node(add_input(FreshBuilder, "x", <<2>>, "FLOAT"),
                 Node("Dropout", <<"x", "deterministic">>, <<"y">>, <<>>)),
        "y", <<2>>, "FLOAT")

\* BodyFlag with the flag declared as an input.
BodyFlagDeclared ==
    add_output(
        add_node(add_input(add_input(FreshBuilder, "x", <<2>>, "FLOAT"),
                           "deterministic", <<2>>, "FLOAT"),
                 Node("Dropout", <<"x", "deterministic">>, <<"y">>, <<>>)),
        "y", <<2>>, "FLOAT")

\* BodyFlagDeclared with the flag also traced as a FLOAT vector.
BodyFlagFloat == add_value_info(BodyFlagDeclared, "deterministic", <<2>>, "FLOAT")

\* A body whose intermediate tensor t has no value-info.
BodyMissing ==
    add_output(
        add_node(add_node(add_input(FreshBuilder, "x", <<2>>, "FLOAT"),
                          Node("Op", <<"x">>, <<"t">>, <<>>)),
                 Node("Op", <<"t">>, <<"y">>, <<>>)),
        "y", <<2>>, "FLOAT")

\* A body whose node reads the constant const_0.
BodyConst ==
    add_output(
        add_node(get_constant_name(add_input(FreshBuilder, "x", <<2>>, "FLOAT"),
                                   Int64Array(<<0>>)).b,
                 Node("Op", <<"x", "const_0">>, <<"y">>, <<>>)),
        "y", <<2>>, "FLOAT")

\* A body that has itself wrapped BodyConst as the function f.
BodyNested ==
    add_function(
        add_output(
            add_node(add_input(FreshBuilder, "x", <<2>>, "FLOAT"),
                     Node("f", <<"x">>, <<"y">>, <<>>)),
            "y", <<2>>, "FLOAT"),
        "f", BodyConst, <<>>, NoConverter).b

\* A body that has wrapped BodyFlagDeclared as f and BodyPlain as g.
BodyNestedTwice ==
    add_function(
        add_function(BodyPlain, "f", BodyFlagDeclared, <<>>, NoConverter).b,
        "g", BodyPlain, <<>>, NoConverter).b

SubBuilders ==
    { BodyPlain, BodyUnconsumed, BodyFlag, BodyFlagDeclared, BodyFlagFloat, BodyMissing,
      BodyConst, BodyNested, BodyNestedTwice }

\* jaxpr.invars a, b, c, d: a and b both named x, c without a name, d the flag.
SubConverters ==
    { NoConverter,
      SubConverter(<<"a", "b", "c", "d">>,
                   ("a" :> "x") @@ ("b" :> "x") @@ ("d" :> "deterministic")) }

ParamInputNames == { <<>>, <<"w">> }

FunctionNames == {"f", "g"}

\* The registrations of the functions of other, in the order of its table.
Registrations(other, via) ==
    [i \in DOMAIN other.functions_order |->
        [ name |-> other.functions_order[i],
          body |-> other.functions[other.functions_order[i]],
          via |-> via ]]

\* sub_builder = OnnxBuilder(...) followed by the tracing of a body.
NewSubBuilder(sub_builder) ==
    /\ body_builder' = sub_builder
    /\ last' = [op |-> "__init__", name |-> "sub_builder"]
    /\ UNCHANGED <<builder, graph, shape_env, call, outcome, model, registered>>

AddFunction(name, param_input_names, sub_converter) ==
    /\ body_builder # NoBuilder
    /\ Len(registered) < MaxRegistrations
    /\ \E r \in {add_function(builder, name, body_builder, param_input_names,
                             sub_converter)} :
           /\ builder' = r.b
           /\ body_builder' = r.sub_builder
           /\ outcome' = [status |-> r.status, missing |-> r.missing]
           /\ registered' = IF r.status = "ok"
                            THEN Append(registered,
                                        [ name |-> name,
                                          body |-> r.b.functions[name],
                                          via |-> "add_function" ])
                            ELSE registered
    /\ call' = [ op |-> "add_function", name |-> name,
                 param_input_names |-> param_input_names,
                 sub_converter |-> sub_converter ]
    /\ last' = [op |-> "add_function", name |-> name]
    /\ graph' = NotBuilt
    /\ model' = NoModel
    /\ UNCHANGED shape_env

MergeFunctionsFrom ==
    /\ body_builder # NoBuilder
    /\ body_builder.functions_order # <<>>
    /\ Len(registered) + Len(body_builder.functions_order) <= MaxRegistrations
    /\ builder' = merge_functions_from(builder, body_builder,
                                       body_builder.functions_order)
    /\ registered' = registered \o Registrations(body_builder, "merge_functions_from")
    /\ last' = [op |-> "merge_functions_from", name |-> ""]
    /\ graph' = NotBuilt
    /\ model' = NoModel
    /\ UNCHANGED <<body_builder, shape_env, call, outcome>>

PropagateNestedFunctions ==
    /\ body_builder # NoBuilder
    /\ body_builder.functions_order # <<>>
    /\ Len(registered) + Len(body_builder.functions_order) <= MaxRegistrations
    /\ \E r \in {_propagate_nested_functions(builder, body_builder,
                                              body_builder.functions_order)} :
           /\ builder' = r.b
           /\ outcome' = [status |-> "ok", warnings |-> r.warnings]
    /\ registered' = registered
                        \o Registrations(body_builder, "_propagate_nested_functions")
    /\ last' = [op |-> "_propagate_nested_functions", name |-> ""]
    /\ graph' = NotBuilt
    /\ model' = NoModel
    /\ UNCHANGED <<body_builder, shape_env, call>>

CreateOnnxModel(model_name) ==
    \E r \in {create_onnx_model(builder, model_name)} :
        /\ builder' = r.b
        /\ graph' = [ status |-> r.status, graph |-> r.model.graph,
                      missing |-> r.missing, name |-> model_name,
                      is_subgraph |-> FALSE, empty_inputs |-> FALSE ]
        /\ model' = [ status |-> r.status, functions |-> r.model.functions,
                      duplicates |-> r.model.duplicates ]
        /\ last' = [op |-> "create_onnx_model", name |-> model_name]
        /\ UNCHANGED <<body_builder, shape_env, call, outcome, registered>>

\* The outer scope: what the parent has recorded about x and the flag.
OuterScopes ==
    { FreshBuilder,
      register_value_info_metadata(FreshBuilder, "x", <<2>>, "FLOAT", ""),
      register_value_info_metadata(FreshBuilder, "deterministic", <<2>>, "FLOAT", ""),
      register_value_info_metadata(
          register_value_info_metadata(FreshBuilder, "x", <<2>>, "FLOAT", ""),
          "deterministic", <<2>>, "FLOAT", "") }

FuncInit ==
    /\ builder \in OuterScopes
    /\ graph = NotBuilt
    /\ last = [op |-> "__init__", name |-> ""]
    /\ shape_env = EmptyDict
    /\ call = NoCall
    /\ outcome = NoOutcome
    /\ body_builder = NoBuilder
    /\ model = NoModel
    /\ registered = <<>>

FuncNext ==
    \/ \E sub_builder \in SubBuilders : NewSubBuilder(sub_builder)
    \/ \E param_input_names \in ParamInputNames, sub_converter \in SubConverters :
            AddFunction("f", param_input_names, sub_converter)

FuncSpec == FuncInit /\ [][FuncNext]_vars

---------------------------------------------------------------------------
(* TableSpec: the function table of a parent builder up to its model       *)

TableBodies == { BodyPlain, BodyConst, BodyNested, BodyNestedTwice }

TableNext ==
    \/ \E sub_builder \in TableBodies : NewSubBuilder(sub_builder)
    \/ \E name \in FunctionNames : AddFunction(name, <<>>, NoConverter)
    \/ MergeFunctionsFrom
    \/ PropagateNestedFunctions
    \/ GetConstantName(Int64Array(<<0>>))
    \/ AddNode(Node("Op", <<"const_0">>, <<"y">>, <<>>))
    \/ AddOutput("y", <<2>>, "FLOAT")
    \/ CreateOnnxModel("m")

TableSpec == Init /\ [][TableNext]_vars


---------------------------------------------------------------------------
(* Claims about add_function (FuncSpec)                                    *)

\* This step is a call of add_function that returns the function's name.
AddFunctionReturns ==
    /\ last'.op = "add_function"
    /\ outcome'.status = "ok"

\* This step is a call of add_function that raises.
AddFunctionRaises ==
    /\ last'.op = "add_function"
    /\ outcome'.status # "ok"

\* The function the step has stored.
StoredFunction == builder'.functions[call'.name]

\* The tensors a function's signature and nodes refer to.
ReferencedTensors(f) ==
    (Range(f.input) \cup Range(f.output) \cup NodeInputs(f.node)
        \cup NodeOutputs(f.node)) \ {""}

\* Every entry of the function's value_info named "deterministic" is a
\* scalar BOOL.
DeterministicIsScalarBool(f) ==
    \A i \in DOMAIN f.value_info :
        f.value_info[i].name = "deterministic" =>
            /\ f.value_info[i].shape = <<>>
            /\ f.value_info[i].elem_type = "BOOL"

\* C14: add_function either raises and leaves the parent's function table
\* without a new entry, or stores a function whose inputs, outputs and
\* node-referenced tensors all have a value-info entry and whose entry named
\* "deterministic", if any, is a scalar BOOL.
C14_AddFunctionAllOrNothing ==
    [][ /\ AddFunctionRaises => builder'.functions = builder.functions
        /\ AddFunctionReturns =>
              /\ ReferencedTensors(StoredFunction)
                    \subseteq NamesOf(StoredFunction.value_info)
              /\ DeterministicIsScalarBool(StoredFunction)
      ]_vars

\* What holds of the stored function: a call that raises leaves the table
\* alone, the flag is a scalar BOOL, and the tensors without an entry are
\* function inputs, function outputs or constants of the sub-builder.
AddFunctionRecordsIntermediates ==
    [][ /\ AddFunctionRaises => builder'.functions = builder.functions
        /\ AddFunctionReturns =>
              /\ ReferencedTensors(StoredFunction)
                    \subseteq (NamesOf(StoredFunction.value_info)
                                 \cup Range(StoredFunction.input)
                                 \cup Range(StoredFunction.output)
                                 \cup NamesOf(body_builder'.initializers))
              /\ DeterministicIsScalarBool(StoredFunction)
      ]_vars

\* A function is stored whose input x and output y have no value-info entry.
StoredWithoutInputValueInfo ==
    /\ last.op = "add_function"
    /\ outcome.status = "ok"
    /\ "f" \in DOMAIN builder.functions
    /\ "x" \in Range(builder.functions["f"].input)
    /\ "x" \notin NamesOf(builder.functions["f"].value_info)
    /\ "y" \in Range(builder.functions["f"].output)
    /\ "y" \notin NamesOf(builder.functions["f"].value_info)

\* The flag is stored as a scalar BOOL although the outer scope and the
\* sub-builder both record it as a FLOAT vector.
FlagForcedToBool ==
    /\ last.op = "add_function"
    /\ outcome.status = "ok"
    /\ "deterministic" \in DOMAIN builder.value_info_metadata
    /\ builder.value_info_metadata["deterministic"].dtype = "FLOAT"
    /\ \E i \in DOMAIN body_builder.value_info :
            /\ body_builder.value_info[i].name = "deterministic"
            /\ body_builder.value_info[i].elem_type = "FLOAT"
    /\ "deterministic" \in NamesOf(builder.functions["f"].value_info)

\* add_function has raised for a tensor without value-info.
AddFunctionRaised ==
    /\ last.op = "add_function"
    /\ outcome.status = "missing_value_info"
    /\ outcome.missing = <<"t">>

\* This step wraps the sub-builder without a sub_converter.
PositionalFallback == call'.sub_converter.none

\* C16: add_function leaves the sub-builder's declared inputs unchanged, and
\* without a sub_converter the function's inputs are the declared inputs in
\* order followed by the extra parameter names.
C16_FunctionKeepsDeclaredInputs ==
    [][ AddFunctionReturns /\ PositionalFallback =>
            /\ body_builder'.inputs = body_builder.inputs
            /\ StoredFunction.input
                  = NameSeq(body_builder.inputs) \o call'.param_input_names
      ]_vars

\* What holds: the function's inputs are the declared inputs that survive
\* _filter_redundant_inputs, followed by the extra parameter names.
FunctionKeepsFilteredInputs ==
    [][ AddFunctionReturns /\ PositionalFallback =>
            /\ body_builder'.inputs
                  = _filter_redundant_inputs(
                        filter_unused_initializers(body_builder)).inputs
            /\ StoredFunction.input
                  = NameSeq(body_builder'.inputs) \o call'.param_input_names
      ]_vars

\* The declared input z, consumed by no node, is gone from the sub-builder
\* and from the function.
UnconsumedInputDropped ==
    /\ last.op = "add_function"
    /\ outcome.status = "ok"
    /\ call.sub_converter.none
    /\ call.param_input_names = <<"w">>
    /\ builder.functions["f"].input = <<"x", "w">>
    /\ NameSeq(body_builder.inputs) = <<"x">>
    /\ body_builder.nodes = BodyUnconsumed.nodes


---------------------------------------------------------------------------
(* Claims about the function table and the model (TableSpec)               *)

\* The places in the history where name was registered.
RegisteredAt(name) == {i \in DOMAIN registered : registered[i].name = name}

RegisteredNames == {registered[i].name : i \in DOMAIN registered}

Last(S) == CHOOSE i \in S : \A j \in S : j <= i

First(S) == CHOOSE i \in S : \A j \in S : i <= j

\* The function of the model named name.
ModelFunction(name) ==
    model.functions[CHOOSE i \in DOMAIN model.functions :
                        model.functions[i].name = name]

\* The function names of the model are pairwise distinct, and are the names
\* registered.
ModelNamesDistinct ==
    /\ \A i, j \in DOMAIN model.functions :
            model.functions[i].name = model.functions[j].name => i = j
    /\ {model.functions[i].name : i \in DOMAIN model.functions} = RegisteredNames

\* create_onnx_model raises only for what _build_graph raises for: nodes out
\* of order or tensors without value-info.
AbortsOnlyForTheGraph ==
    last.op = "create_onnx_model" /\ model.status # "ok" =>
        \/ ~_assert_topologically_sorted(builder)
        \/ find_missing_value_info(builder) # <<>>

KeptBody(name) ==
    LET added == {i \in RegisteredAt(name) : registered[i].via = "add_function"}
    IN  IF added # {} THEN registered[Last(added)].body
        ELSE registered[First(RegisteredAt(name))].body

AddFunctionReplaced ==
    /\ model.status = "ok"
    /\ \E i, j \in DOMAIN registered :
            /\ i < j
            /\ registered[i].name = registered[j].name
            /\ registered[i].body # registered[j].body
            /\ registered[j].via = "add_function"
            /\ ModelFunction(registered[i].name) = registered[j].body

\* This step is a call of create_onnx_model.
Finalize == last'.op = "create_onnx_model"

\* name is an input of a node of b or of a node of a function b holds.
UsedInitializer(b, name) ==
    \/ \E k \in DOMAIN b.nodes : name \in Range(b.nodes[k].input)
    \/ \E f \in DOMAIN b.functions :
            \E k \in DOMAIN b.functions[f].node :
                name \in Range(b.functions[f].node[k].input)

DeadInitializerPruned ==
    /\ last.op = "create_onnx_model"
    /\ graph.status = "ok"
    /\ "const" \in DOMAIN builder.name_generator
    /\ builder.initializers = <<>>

---------------------------------------------------------------------------
(* Claims about the updates the legalizer expects and returns              *)
(* (ScatterSpec)                                                           *)

\* The call reached the updates reconciliation of the default path with the
\* expected shape computed: it returned on that path or raised the element
\* count mismatch, whose message carries the expected shape.
ReachedDefaultUpdates ==
    /\ outcome.status # "none"
    /\ \/ outcome.status = "ok" /\ outcome.path = "default"
       \/ outcome.status = "error" /\ outcome.error.kind = "element_count_mismatch"

\* current_expected_onnx_updates_shape of that call.
CurrentExpectedUpdatesShape ==
    IF outcome.status = "ok" THEN outcome.expected
    ELSE outcome.error.expected_shape

\* indices_shape[:-1] of the final indices.
FinalIndicesBatch == SubSeq(outcome.target, 1, Len(outcome.target) - 1)

\* The sizes of the operand dimensions not in inserted_window_dims, in
\* operand order.
OperandDimsNotInserted ==
    LET inserted == Range(call.dimension_numbers.inserted_window_dims)
        kept == SelectSeq([d \in 1..Len(call.operand.shape) |-> d - 1],
                          LAMBDA d : d \notin inserted)
    IN  [i \in DOMAIN kept |-> call.operand.shape[kept[i] + 1]]

\* update_window_dims are the trailing positions of the updates.
UpdateWindowDimsTrailing ==
    LET uwd == call.dimension_numbers.update_window_dims
    IN  \A i \in DOMAIN uwd : uwd[i] = Len(FinalIndicesBatch) + i - 1

\* inserted_window_dims are the first K operand dimensions.
InsertedAreLeadingK ==
    call.dimension_numbers.inserted_window_dims
        = [i \in 1..IndexDepthK |-> i - 1]

ComputedForFinalIndices ==
    compute_expected_updates_shape(call.dimension_numbers, call.operand.shape,
                                   outcome.target)

\* C21 as stated: on the default path the expected updates shape is the
\* leading dimensions of the final indices shape followed by the sizes of
\* the operand dimensions not in inserted_window_dims, for every dimension
\* mapping, and it is what compute_expected_updates_shape returns for the
\* final indices shape when update_window_dims are the trailing positions.
C21_ExpectedUpdatesShape ==
    ReachedDefaultUpdates =>
        /\ CurrentExpectedUpdatesShape = FinalIndicesBatch \o OperandDimsNotInserted
        /\ (UpdateWindowDimsTrailing /\ ComputedForFinalIndices.error = "none") =>
              CurrentExpectedUpdatesShape = ComputedForFinalIndices.shape

\* What holds instead: on the default path the expected updates shape is the
\* leading dimensions of the final indices shape followed by operand_shape[K:], K
\* the index depth; when inserted_window_dims are the first K operand
\* dimensions this is the sizes of the operand dimensions not inserted, and
\* with update_window_dims trailing it is what
\* compute_expected_updates_shape returns for the final indices shape, when
\* it returns.
ExpectedUpdatesShapeFromDepth ==
    ReachedDefaultUpdates =>
        /\ CurrentExpectedUpdatesShape = ExpectedUpdatesShape
        /\ InsertedAreLeadingK =>
              /\ CurrentExpectedUpdatesShape = FinalIndicesBatch \o OperandDimsNotInserted
              /\ (UpdateWindowDimsTrailing /\ ComputedForFinalIndices.error = "none") =>
                    CurrentExpectedUpdatesShape = ComputedForFinalIndices.shape

\* A call that returned on the default path with a window of one operand
\* dimension behind the inserted dimension 0, the updates reshaped to it.
DefaultPathWindowBehindInserted ==
    /\ ReachedDefaultUpdates
    /\ outcome.status = "ok"
    /\ outcome.how = "reshape"
    /\ InsertedAreLeadingK /\ UpdateWindowDimsTrailing
    /\ IndexDepthK = 1
    /\ CurrentExpectedUpdatesShape = <<1, 3>>
    /\ ComputedForFinalIndices.error = "none"
    /\ ComputedForFinalIndices.shape = <<1, 3>>

\* A call with no inserted dimension that returns on the default path: the
\* window the mapping describes is the whole operand, the expected shape
\* keeps operand_shape[1:] alone.
ExpectedShapeDropsWindowDimension ==
    /\ ReachedDefaultUpdates
    /\ outcome.status = "ok"
    /\ call.dimension_numbers
          = ScatterDimensionNumbers(<<0, 1>>, <<>>, <<1>>, <<>>)
    /\ call.operand.shape = <<5, 3>>
    /\ call.updates.shape = <<3, 1>>
    /\ CurrentExpectedUpdatesShape = <<1, 3>>
    /\ FinalIndicesBatch \o OperandDimsNotInserted = <<1, 5, 3>>

---------------------------------------------------------------------------
(* Claims about the batched-window strategy's guard (ScatterSpec)          *)

\* The call returned the indices of the batched-window strategy.
TookFastPath == outcome.status = "ok" /\ outcome.path = "depth2"

ScatteredAxis == call.dimension_numbers.scatter_dims_to_operand_dims[1]

\* The pattern of lines 460-470 but for the length of update_window_dims.
FastPathPattern ==
    /\ Len(call.dimension_numbers.scatter_dims_to_operand_dims) = 1
    /\ call.dimension_numbers.inserted_window_dims = <<>>
    /\ call.dimension_numbers.operand_batching_dims = <<>>
    /\ Len(call.operand.shape) = Len(call.updates.shape)
    /\ call.indices.shape \in {<<>>, <<1>>}

\* Operand and updates have equal sizes on the axes (counted from 0) in
\* axes.
AgreeOn(axes) ==
    \A a \in axes :
        _are_dims_equal(call.operand.shape[a + 1], call.updates.shape[a + 1])

AllAxes == {a \in 0..(Len(call.operand.shape) - 1) : TRUE}

\* C22: the batched-window strategy is taken only when
\* scatter_dims_to_operand_dims has one entry, inserted_window_dims and
\* operand_batching_dims are empty, operand and updates have the same rank,
\* the indices shape is () or (1,), and operand and updates have equal sizes
\* on every axis other than the scattered one.
C22_FastPathGuard ==
    TookFastPath =>
        /\ FastPathPattern
        /\ AgreeOn(AllAxes \ {ScatteredAxis})

\* What the guard compares: with the scattered axis 0 every other axis;
\* otherwise axis 0 and the axes behind the scattered one.
FastPathGuardSkipsMiddleAxes ==
    TookFastPath =>
        /\ FastPathPattern
        /\ Len(call.dimension_numbers.update_window_dims) = Len(call.updates.shape)
        /\ ScatteredAxis < Len(call.operand.shape)
        /\ AgreeOn({a \in AllAxes : a = 0 \/ a > ScatteredAxis} \ {ScatteredAxis})

\* The strategy taken for operand (2, 3, 3) and updates (2, 1, 3) scattered
\* on axis 2: axis 1 has sizes 3 and 1.
FastPathWithMiddleAxisUnequal ==
    /\ TookFastPath
    /\ call.operand.shape = <<2, 3, 3>>
    /\ call.updates.shape = <<2, 1, 3>>
    /\ ScatteredAxis = 2
    /\ call.indices.shape = <<1>>
    /\ Registered(outcome.indices) = <<2, 3, 2>>

---------------------------------------------------------------------------
(* Claims about the batched-window strategy with symbolic sizes            *)
(* (ScatterSpec)                                                           *)

\* The pattern is detected (use_depth2_for_batched_window_scatter is True)
\* and a dimension of the operand or of the updates is a symbolic dimension
\* the converter cannot resolve.
FastPathDetectedNotConcrete ==
    /\ outcome.status # "none"
    /\ outcome.error.kind \notin
           {"reshape_target_not_concrete", "depth_not_concrete",
            "depth_negative", "depth_exceeds_operand_rank"}
    /\ use_depth2_for_batched_window_scatter(call)
    /\ ~(Resolvable(call.operand.shape) /\ Resolvable(call.updates.shape))

FastPathOps == {"Squeeze", "Range", "Unsqueeze", "Expand", "Add", "Concat"}

EmittedOps == {builder.nodes[i].op_type : i \in DOMAIN builder.nodes}

\* C23: when the pattern is detected but a dimension of the operand or of
\* the updates is an unresolved symbolic dimension, the call does not raise
\* and emits no node of the strategy: it goes on with the reconciliation of
\* the updates on the default path.
C23_FastPathFallsThrough ==
    FastPathDetectedNotConcrete =>
        /\ outcome.status = "ok"
        /\ outcome.path = "default"
        /\ EmittedOps \cap FastPathOps = {}

\* What happens instead: the ValueError of _make_shape_concrete_for_prod
\* leaves the call, for the operand first, and no node of the strategy was
\* emitted.
FastPathRaisesWhenNotConcrete ==
    FastPathDetectedNotConcrete =>
        /\ outcome.status = "error"
        /\ outcome.error.kind = "not_concrete"
        /\ outcome.error.context_msg =
              IF Resolvable(call.operand.shape) THEN "d2_upd_shape"
              ELSE "d2_op_shape"
        /\ EmittedOps \cap FastPathOps = {}

\* Operand and updates (s, 6), s unresolved, scattered on axis 1: the call
\* raised for d2_op_shape.
FastPathRaisedOnSymbolicBatch ==
    /\ FastPathDetectedNotConcrete
    /\ call.operand.shape = <<SymBase, 6>>
    /\ call.updates.shape = <<SymBase, 6>>
    /\ ScatteredAxis = 1
    /\ outcome.status = "error"
    /\ outcome.error.context_msg = "d2_op_shape"

---------------------------------------------------------------------------
(* Claims about the reconciliation of the updates (ScatterSpec)            *)

\* The call returned on the default path.
ReturnedOnDefaultPath == outcome.status = "ok" /\ outcome.path = "default"

\* The axes (counted from 0) of size 1 of the original updates whose removal
\* leaves the expected shape.
SqueezableAxes ==
    {a \in 0..(Len(call.updates.shape) - 1) :
        /\ call.updates.shape[a + 1] = 1
        /\ _are_shapes_equal(RemoveAt(call.updates.shape, a + 1),
                             CurrentExpectedUpdatesShape)}

SqueezeApplies ==
    /\ Len(call.updates.shape) = Len(CurrentExpectedUpdatesShape) + 1
    /\ SqueezableAxes # {}

\* The nodes of the builder that read the original updates.
UpdatesNodes ==
    SelectSeq(builder.nodes,
              LAMBDA node : call.updates.name \in Range(node.input))

ValueOfInitializer(name) ==
    (CHOOSE init \in Range(builder.initializers) : init.name = name).vals

\* The updates go through one node of type op_type, whose output is
\* returned and registered with the expected shape.
UpdatesThrough(op_type) ==
    /\ Len(UpdatesNodes) = 1
    /\ UpdatesNodes[1].op_type = op_type
    /\ Len(UpdatesNodes[1].input) = 2
    /\ UpdatesNodes[1].input[1] = call.updates.name
    /\ UpdatesNodes[1].output = <<outcome.updates>>
    /\ outcome.updates # call.updates.name
    /\ Registered(outcome.updates) = CurrentExpectedUpdatesShape

\* The constant a Reshape to the expected shape reads: the expected
\* dimensions, resolved, with at most one of them left as -1.
IsTargetOfExpected(vals) ==
    /\ Len(vals) = Len(CurrentExpectedUpdatesShape)
    /\ \A i \in DOMAIN vals :
          vals[i] \in {-1, Resolved(CurrentExpectedUpdatesShape)[i]}
    /\ Cardinality({i \in DOMAIN vals :
                       vals[i] = -1 /\ CurrentExpectedUpdatesShape[i] # -1}) <= 1

\* C24: on the default path with equal non-zero element counts, a Squeeze is
\* emitted exactly when the original updates have the expected rank plus
\* one and removing one axis of size 1 gives the expected shape, and it
\* squeezes the lowest such axis; in every other case of equal counts a
\* Reshape to the expected shape is emitted; and when the shapes are equal
\* no node is emitted and the original updates name is returned.
C24_SqueezePreferred ==
    ReturnedOnDefaultPath =>
        IF _are_shapes_equal(call.updates.shape, CurrentExpectedUpdatesShape)
        THEN /\ UpdatesNodes = <<>>
             /\ outcome.updates = call.updates.name
        ELSE (ElementCount(call.updates.shape) # 0) =>
             /\ ElementCount(call.updates.shape)
                   = ElementCount(CurrentExpectedUpdatesShape)
             /\ IF SqueezeApplies
                THEN /\ UpdatesThrough("Squeeze")
                     /\ ValueOfInitializer(UpdatesNodes[1].input[2])
                           = << CHOOSE a \in SqueezableAxes :
                                   \A other \in SqueezableAxes : a <= other >>
                ELSE /\ UpdatesThrough("Reshape")
                     /\ IsTargetOfExpected(
                            ValueOfInitializer(UpdatesNodes[1].input[2]))

\* Updates (1, 1, 3) against the expected (1, 3): either axis of size 1 can
\* go, and the Squeeze emitted names axis 0.
C24_Witness ==
    /\ ReturnedOnDefaultPath
    /\ call.updates.shape = <<1, 1, 3>>
    /\ CurrentExpectedUpdatesShape = <<1, 3>>
    /\ SqueezableAxes = {0, 1}
    /\ UpdatesThrough("Squeeze")
    /\ ValueOfInitializer(UpdatesNodes[1].input[2]) = <<0>>

\* Equal counts and no axis to squeeze: updates (3,) reshaped to (1, 3).
ReshapedWhenNoAxisToSqueeze ==
    /\ ReturnedOnDefaultPath
    /\ call.updates.shape = <<3>>
    /\ CurrentExpectedUpdatesShape = <<1, 3>>
    /\ UpdatesThrough("Reshape")
    /\ ValueOfInitializer(UpdatesNodes[1].input[2]) = <<1, 3>>

---------------------------------------------------------------------------
(* Claims about the triple the legalizer returns (ScatterSpec)             *)

\* The index depth of the returned indices: the last dimension of their
\* registered shape.
ReturnedDepth ==
    Registered(outcome.indices)[Len(Registered(outcome.indices))]

\* What ScatterND accepts for the returned indices: q at most the operand
\* rank, updates of shape indices_shape[:-1] + operand_shape[q:].
LegalScatterCall ==
    LET indices_shape == Registered(outcome.indices)
        q == ReturnedDepth
    IN  /\ q <= Len(call.operand.shape)
        /\ Registered(outcome.updates)
              = SubSeq(indices_shape, 1, Len(indices_shape) - 1)
                  \o SubSeq(call.operand.shape, q + 1, Len(call.operand.shape))

\* C25: after every successful call, on the default path or the
\* batched-window one, the index depth q of the returned indices is at most
\* the operand rank and the registered shape of the returned updates is
\* returned_indices_shape[:-1] + operand_shape[q:].
C25_LegalScatterCall ==
    outcome.status = "ok" => LegalScatterCall

\* What holds: the triple of a default-path return is legal, and so is that
\* of the batched-window strategy for an operand of rank 2 scattered on
\* axis 1.
LegalOnDefaultPathAndOnColumns ==
    /\ ReturnedOnDefaultPath => LegalScatterCall
    /\ (TookFastPath /\ Len(call.operand.shape) = 2 /\ ScatteredAxis = 1) =>
           LegalScatterCall

\* The batched-window strategy on an operand of rank 1: the returned indices
\* have depth 2.
FastPathDepthExceedsOperandRank ==
    /\ TookFastPath
    /\ call.operand.shape = <<4>>
    /\ call.updates.shape = <<3>>
    /\ call.indices.shape = <<1>>
    /\ Registered(outcome.indices) = <<4, 3, 2>>
    /\ Registered(outcome.updates) = <<3>>

\* The strategy on axis 0 of operand (5, 3): indices (5, 1, 2) with updates
\* (1, 3), where (5, 1) is required.
FastPathOnAxis0UpdatesNotWindow ==
    /\ TookFastPath
    /\ ScatteredAxis = 0
    /\ call.operand.shape = <<5, 3>>
    /\ Registered(outcome.indices) = <<5, 1, 2>>
    /\ Registered(outcome.updates) = <<1, 3>>

\* The strategy on axis 2 of operand (2, 3, 3): indices (2, 3, 2) with
\* updates (2, 1, 3), where (2, 3, 3) is required.
FastPathOnAxis2UpdatesNotWindow ==
    /\ TookFastPath
    /\ ScatteredAxis = 2
    /\ call.operand.shape = <<2, 3, 3>>
    /\ Registered(outcome.indices) = <<2, 3, 2>>
    /\ Registered(outcome.updates) = <<2, 1, 3>>

---------------------------------------------------------------------------
(* Claims about the initializers a finalized graph keeps (PruneSpec)       *)

\* name is an input of a node inside the subgraph attribute of a node of ns.
ConsumedInSubgraph(ns, name) == name \in SubgraphNodeInputs(ns)

\* C26: after a successful finalize, every name that was an initializer
\* before it and is an input of a top-level node, of a node of a function,
\* or of a node inside the subgraph attribute of a control-flow node is an
\* initializer of the graph returned.
C26_NoDanglingInitializer ==
    [][ TopLevelFinalize =>
            \A name \in NamesOf(builder.initializers) :
                (UsedInitializer(builder, name)
                    \/ ConsumedInSubgraph(builder.nodes, name)) =>
                    name \in NamesOf(graph'.graph.initializer)
      ]_vars

\* What holds: the initializers read by a top-level node or by a node of a
\* function are kept, and one read inside subgraph attributes alone is
\* dropped, while a declared input read there alone is kept.
InitializerKeptForTopLevelAndFunctionNodes ==
    [][ TopLevelFinalize =>
            /\ \A name \in NamesOf(builder.initializers) :
                  (name \in NamesOf(graph'.graph.initializer))
                      <=> UsedInitializer(builder, name)
            /\ \A name \in NamesOf(builder.inputs) \ NamesOf(builder.initializers) :
                  (ConsumedInSubgraph(builder.nodes, name)
                      /\ name \notin NodeOutputs(builder.nodes)) =>
                      name \in NamesOf(graph'.graph.inputs)
      ]_vars

\* The graph returned has a Loop whose body reads const_0, created by
\* get_constant_name, and no initializer and no input of that name.
InitializerOfLoopBodyPruned ==
    /\ graph.status = "ok"
    /\ "const" \in DOMAIN builder.name_generator
    /\ \E k \in DOMAIN graph.graph.nodes :
          /\ graph.graph.nodes[k].op_type = "Loop"
          /\ "const_0" \in Range(graph.graph.nodes[k].g_input)
    /\ "const_0" \notin NamesOf(graph.graph.initializer)
    /\ "const_0" \notin NamesOf(graph.graph.inputs)

---------------------------------------------------------------------------
(* Claims about a call of the legalizer that raises (ScatterSpec)          *)

\* This step is a call of _prepare_scatter_inputs_for_onnx that raises.
LegalizationRaises ==
    /\ last'.op = "_prepare_scatter_inputs_for_onnx"
    /\ outcome'.status = "error"

\* C27: a call that raises (index depth above the operand rank, unresolved
\* symbolic dimension, element count mismatch of the updates) leaves the
\* builder's nodes and initializers as they were before the call.
C27_FailedCallLeavesGraph ==
    [][ LegalizationRaises =>
            /\ builder'.nodes = builder.nodes
            /\ builder'.initializers = builder.initializers
      ]_vars

\* What a call that raises leaves behind: the nodes and initializers there
\* before, then the Cast of the indices when their dtype is not int64 and
\* the Reshape of the indices with its target constant when the target
\* shape differs, unless the building of that constant raised; nothing for
\* the updates and nothing of the batched-window strategy.
FailedCallKeepsIndexNodes ==
    [][ LegalizationRaises =>
            LET added == SubSeq(builder'.nodes, Len(builder.nodes) + 1,
                                Len(builder'.nodes))
                ops == [i \in DOMAIN added |-> added[i].op_type]
                cast == IF call.indices.dtype # "int64" THEN <<"Cast">> ELSE <<>>
                reshape ==
                    IF outcome'.error.kind # "reshape_target_not_concrete"
                          /\ ~_are_shapes_equal(call.indices.shape, outcome'.target)
                    THEN <<"Reshape">> ELSE <<>>
            IN  /\ SubSeq(builder'.nodes, 1, Len(builder.nodes)) = builder.nodes
                /\ ops = cast \o reshape
                /\ Len(builder'.initializers)
                      = Len(builder.initializers) + Len(reshape)
      ]_vars

\* The depth 3 exceeds the rank of operand (5, 3): the call raised after the
\* Cast of the int32 indices (2, 3, 1) and their Reshape were added.
RaisedAfterCastAndReshape ==
    /\ outcome.status = "error"
    /\ outcome.error.kind = "depth_exceeds_operand_rank"
    /\ call.operand.shape = <<5, 3>>
    /\ call.indices.shape = <<2, 3, 1>>
    /\ [i \in DOMAIN builder.nodes |-> builder.nodes[i].op_type]
          = <<"Cast", "Reshape">>
    /\ Len(builder.initializers) = 1

\* Updates (2, 3) against the expected (1, 3) for operand (5, 3) and scalar
\* int32 indices: the call raised for the element counts, and the Cast and
\* the Reshape of the indices stay with the Reshape's target constant.
RaisedOnCountMismatchAfterCast ==
    /\ outcome.status = "error"
    /\ outcome.error.kind = "element_count_mismatch"
    /\ call.operand.shape = <<5, 3>>
    /\ call.indices.shape = <<>>
    /\ call.updates.shape = <<2, 3>>
    /\ outcome.error.expected_shape = <<1, 3>>
    /\ [i \in DOMAIN builder.nodes |-> builder.nodes[i].op_type]
          = <<"Cast", "Reshape">>
    /\ Len(builder.initializers) = 1

---------------------------------------------------------------------------
(* Claims about the order of the nodes the legalizer appends (ScatterSpec) *)

LegalizerOps ==
    {"Cast", "Reshape", "Squeeze", "Range", "Unsqueeze", "Expand", "Add",
     "Concat"}

OriginalNames == {call.operand.name, call.indices.name, call.updates.name}

\* The builder with the three tensors of the call declared as graph inputs.
WithOriginalsDeclared ==
    [builder EXCEPT !.inputs =
        @ \o << [name |-> call.operand.name], [name |-> call.indices.name],
                [name |-> call.updates.name] >>]

\* C28: after a call, returned or raised, every node appended is one of
\* Cast, Reshape, Squeeze, Range, Unsqueeze, Expand, Add, Concat and each of
\* its inputs is the operand, indices or updates name, a constant of the
\* builder, or an output of a node appended before it; so the node list
\* passes the topological check once the three tensors are declared.
C28_DependencyOrder ==
    outcome.status # "none" =>
        /\ \A k \in DOMAIN builder.nodes :
              /\ builder.nodes[k].op_type \in LegalizerOps
              /\ \A inp \in Range(builder.nodes[k].input) :
                    \/ inp \in OriginalNames
                    \/ inp \in NamesOf(builder.initializers)
                    \/ inp \in NodeOutputs(SubSeq(builder.nodes, 1, k - 1))
        /\ _assert_topologically_sorted(WithOriginalsDeclared)

\* A batched-window return with int32 indices of shape (1,): thirteen nodes,
\* the Squeeze reading the Cast's output and the Add the Squeeze's.
C28_Witness ==
    /\ TookFastPath
    /\ Len(builder.nodes) = 13
    /\ \E c, q, a \in DOMAIN builder.nodes :
          /\ c < q /\ q < a
          /\ builder.nodes[c].op_type = "Cast"
          /\ builder.nodes[q].op_type = "Squeeze"
          /\ builder.nodes[a].op_type = "Add"
          /\ builder.nodes[c].output[1] \in Range(builder.nodes[q].input)
          /\ builder.nodes[q].output[1] \in Range(builder.nodes[a].input)

---------------------------------------------------------------------------
(* Claims about the metadata of what the legalizer emits (ScatterSpec)     *)

\* name has a shape and a dtype in the builder's metadata.
HasMetadata(name) == name \in DOMAIN builder.value_info_metadata

\* name has a shape and a dtype in the converter's shape_env as well.
Recorded(name) == HasMetadata(name) /\ name \in DOMAIN shape_env

CastNodes == SelectSeq(builder.nodes, LAMBDA node : node.op_type = "Cast")

\* C29: after a successful call every output of every node appended, every
\* constant created and each of the three names returned has a shape/dtype
\* entry; the returned indices are registered with dtype int64; and a Cast
\* node is there exactly when the dtype of the original indices is not
\* int64.
C29_MetadataForEmitted ==
    outcome.status = "ok" =>
        /\ \A name \in NodeOutputs(builder.nodes) : Recorded(name)
        /\ \A name \in NamesOf(builder.initializers) : HasMetadata(name)
        /\ \A name \in {outcome.operand, outcome.indices, outcome.updates} :
              Recorded(name)
        /\ shape_env[outcome.indices].dtype = "int64"
        /\ builder.value_info_metadata[outcome.indices].dtype = "INT64"
        /\ Len(CastNodes) = IF call.indices.dtype # "int64" THEN 1 ELSE 0
        /\ \A i \in DOMAIN CastNodes :
              /\ CastNodes[i].input = <<call.indices.name>>
              /\ CastNodes[i].attribute.to = "INT64"

\* A default-path return for int32 indices: the Cast is the first node, the
\* indices returned are another name, of dtype INT64, and the updates went
\* through a node whose output and constant have their entries.
C29_Witness ==
    /\ ReturnedOnDefaultPath
    /\ call.indices.dtype = "int32"
    /\ builder.nodes[1].op_type = "Cast"
    /\ outcome.indices # call.indices.name
    /\ builder.value_info_metadata[outcome.indices].dtype = "INT64"
    /\ outcome.updates # call.updates.name
    /\ Recorded(outcome.updates)
    /\ Len(builder.initializers) = 2

\* A return for int64 indices that already have the target shape: no Cast,
\* and the indices returned are the original ones.
NoCastForInt64Indices ==
    /\ outcome.status = "ok"
    /\ call.indices.dtype = "int64"
    /\ CastNodes = <<>>
    /\ outcome.indices = call.indices.name

---------------------------------------------------------------------------
(* Claims about the Squeeze nodes the legalizer emits (ScatterSpec)        *)

SqueezeNodes == SelectSeq(builder.nodes, LAMBDA node : node.op_type = "Squeeze")

\* The axes constant of the Squeeze names one axis, which the registered
\* shape of the tensor squeezed has, with size 1.
WellFormedSqueeze(node) ==
    LET axes == ValueOfInitializer(node.input[2])
        shape == Registered(node.input[1])
    IN  /\ Len(axes) = 1
        /\ axes[1] \in 0..(Len(shape) - 1)
        /\ shape[axes[1] + 1] = 1

\* C30: every Squeeze the legalizer emits names an axis that the registered
\* shape of its input has, of size 1: the Squeeze of the updates on the
\* default path and the Squeeze on axis 0 of the indices in the
\* batched-window strategy, for indices of shape () and of shape (1,).
C30_SqueezeWellFormed ==
    outcome.status # "none" =>
        \A i \in DOMAIN SqueezeNodes : WellFormedSqueeze(SqueezeNodes[i])

\* What holds: the Squeeze of the updates is well formed, and so is that of
\* the indices of shape (1,); for indices of shape () the strategy squeezes
\* axis 0 of a tensor registered with no axis.
SqueezeWellFormedButOnScalarIndices ==
    outcome.status # "none" =>
        \A i \in DOMAIN SqueezeNodes :
            IF SqueezeNodes[i].input[1] = call.updates.name
                  \/ call.indices.shape # <<>>
            THEN WellFormedSqueeze(SqueezeNodes[i])
            ELSE /\ Registered(SqueezeNodes[i].input[1]) = <<>>
                 /\ ValueOfInitializer(SqueezeNodes[i].input[2]) = <<0>>

\* The strategy taken for scalar indices: its Squeeze reads a tensor
\* registered with shape () and names axis 0.
FastPathSqueezesScalarIndices ==
    /\ TookFastPath
    /\ call.indices.shape = <<>>
    /\ Len(SqueezeNodes) = 1
    /\ Registered(SqueezeNodes[1].input[1]) = <<>>
    /\ ValueOfInitializer(SqueezeNodes[1].input[2]) = <<0>>

\* The strategy taken for indices (1,): its Squeeze is well formed.
FastPathSqueezesOneElementIndices ==
    /\ TookFastPath
    /\ call.indices.shape = <<1>>
    /\ Len(SqueezeNodes) = 1
    /\ Registered(SqueezeNodes[1].input[1]) = <<1>>
    /\ WellFormedSqueeze(SqueezeNodes[1])

=============================================================================
